---------------------------- MODULE Spec2Model ----------------------------
(***************************************************************************)
(* Pathway Pipeline V2: the pathway hierarchy (pathways, pathway_parents,   *)
(* pathway_hierarchy_history, pathway_interactions and the two naming      *)
(* tables) and the batch stages that mutate it:                            *)
(*   Stage 2  run_stage2_from_db      (name normalisation)                 *)
(*   Stage 3  run_stage3_from_db      (refinement, eager node creation)    *)
(*   Stage 4  run_stage4_from_db      (chain building and merging)         *)
(*   Stage 5  run_stage5_from_db      (sibling insertion)                  *)
(*   Stage 7  fix_orphan_pathways, validate_hierarchy_invariants,          *)
(*            prune_dead_pathways                                          *)
(* The classification oracle is an input: every answer it can give within  *)
(* the bounds below is enumerated.                                         *)
(***************************************************************************)
EXTENDS Integers, Sequences, FiniteSets, TLC

VARIABLES
    pathways,             \* pathways table: id -> row
    parents,              \* pathway_parents table: set of rows
    history,              \* pathway_hierarchy_history: canonical_name -> row
    links,                \* pathway_interactions: interaction -> pathway ids of its rows
    initial_assignments,  \* pathway_initial_assignments: interaction -> row
    canonical_names,      \* pathway_canonical_names: initial_name -> canonical_name
    next_id,              \* next value of the pathways.id sequence
    call_count,           \* AIClient._call_count
    pc,                   \* which stage run is in progress ("idle": none)
    s4_todo,              \* Stage 4: pathways_with_context still to be sent to the oracle
    s4_existing,          \* Stage 4: existing_chains (insertion ordered dict)
    s5_pairs,             \* Stage 5: pairs_to_process still to be sent to the oracle
    s3_results,           \* Stage 3: the batch in flight (results of reassign_interactions_batch)
    report,               \* Stage 7: the last validation report
    reach,                \* Stage 7: the last result of check_reachability_from_roots
    committed,            \* Stage 3: the tables as of the last commit, while its session is open
    client,               \* ai_client: AIClient._instance, its attributes, _client, the locks
    threads,              \* ai_client: each thread's position in call_ai_sequential
    orchestrator,         \* run_batch: the orchestrator process
    evidence              \* evidence_validator: the call of validate_and_enrich_evidence

vars == <<pathways, parents, history, links, initial_assignments, canonical_names,
          next_id, call_count, pc, s4_todo, s4_existing, s5_pairs, s3_results,
          report, reach, committed,
          client, threads, orchestrator, evidence>>

\* The variables of the oracle client's threads and of the orchestrator.
client_vars == <<client, threads>>
orchestrator_vars == <<orchestrator>>
evidence_vars == <<evidence>>

\* The tables and the stage in progress, which the client does not touch.
table_vars == <<pathways, parents, history, links, initial_assignments,
                canonical_names, next_id, pc, s4_todo, s4_existing, s5_pairs,
                s3_results, report, reach, committed>>

-----------------------------------------------------------------------------
(* Names.  Two of the twelve root categories are modelled; PQC is          *)
(* "Protein Quality Control", the fallback root of fix_orphan_pathways.    *)

PQC == "Protein Quality Control"
ROOT_CATEGORY_NAMES == {PQC, "Metabolism"}

\* Pathway names the coarse pass produced; "A" and "A2" are spelling variants.
InitialNames == {"A", "A2", "B"}
\* A name the oracle may invent outside every vocabulary.
Foreign == "Nonexistent Pathway"
\* SQL NULL / Python None.
None == "None"

Interactions == {1, 2}

\* Bounds of the model.
MaxCalls == 4      \* oracle calls explored per behaviour
MaxChainLen == 2   \* longest chain the oracle returns
MaxSiblings == 1   \* longest sibling list the oracle returns
MaxReassign == 2   \* longest reassignments list the oracle returns
MaxPathwayId == 5  \* largest id the pathways sequence hands out
GraphNodes == 3    \* pathways of the hierarchies Stage 7's checks are tried on

\* Program constants.
MAX_HIERARCHY_DEPTH == 10
MAX_SIBLINGS_PER_LEVEL == 10
BATCH_SIZE_STAGE3 == 5
BATCH_SIZE_STAGE4 == 1
BATCH_SIZE_STAGE5 == 1
PENDING_LEVEL == 999

Min(a, b) == IF a < b THEN a ELSE b

\* Sequences over S of length lo..hi.
SeqsOf(S, lo, hi) == UNION {[1..n -> S] : n \in lo..hi}

\* The elements of a sequence.
Range(s) == {s[i] : i \in DOMAIN s}

\* Python's chain.index(x), 1-based.
IndexOf(s, x) == CHOOSE i \in DOMAIN s : s[i] = x /\ \A j \in 1..(i-1) : s[j] # x

\* All orders in which the elements of a finite set can be listed.
Perms(S) == {p \in [1..Cardinality(S) -> S] : Range(p) = S}

-----------------------------------------------------------------------------
(* The database session as a record, threaded through the handlers.        *)

Db == [pathways |-> pathways, parents |-> parents, history |-> history,
       next_id |-> next_id]

\* query(Pathway).filter_by(name=name): ids of the rows with that name.
PathwayIdsByName(pw, name) == {i \in DOMAIN pw : pw[i].name = name}

\* .first() of that query (lowest id when several rows match).
FirstPathwayId(pw, name) ==
    CHOOSE i \in PathwayIdsByName(pw, name) :
        \A j \in PathwayIdsByName(pw, name) : i <= j

-----------------------------------------------------------------------------
(* Stage 4: ensure_pathway_chain_in_db                                     *)

\* A new row that keeps the column default is_leaf = True.
ChainPathwayRowDefaultLeaf(id, chain, k) ==
    [id |-> id, name |-> chain[k], pathway_type |-> "main",
     hierarchy_level |-> k - 1, is_leaf |-> TRUE,
     hierarchy_chain |-> SubSeq(chain, 1, k)]

\* Pathway(...) as ensure_pathway_chain_in_db creates it at position k (level k-1).
ChainPathwayRow(id, chain, k) ==
    [id |-> id, name |-> chain[k], pathway_type |-> "main",
     hierarchy_level |-> k - 1, is_leaf |-> (k = Len(chain)),
     hierarchy_chain |-> SubSeq(chain, 1, k)]

\* An update that sets the level to the position in the chain.
ChainPathwayUpdateLevelByPosition(row, chain, k) ==
    [row EXCEPT !.hierarchy_level = k - 1,
                !.is_leaf = IF k < Len(chain) THEN FALSE ELSE @,
                !.hierarchy_chain = SubSeq(chain, 1, k)]

\* An update that stores the whole chain instead of chain[:level + 1].
ChainPathwayUpdateWhole(row, chain, k) ==
    [row EXCEPT !.hierarchy_level = Min(@, k - 1),
                !.is_leaf = IF k < Len(chain) THEN FALSE ELSE @,
                !.hierarchy_chain = chain]

\* The update of a pathway that already exists, at position k of the chain.
ChainPathwayUpdate(row, chain, k) ==
    [row EXCEPT !.hierarchy_level = Min(@, k - 1),
                !.is_leaf = IF k < Len(chain) THEN FALSE ELSE @,
                !.hierarchy_chain = SubSeq(chain, 1, k)]

\* A lookup that sees leaf rows only, so inner pathways are created again.
ChainLookupLeaves(pw, name) == {i \in PathwayIdsByName(pw, name) : pw[i].is_leaf}

\* A lookup that finds no row, as if the loop created without looking.
ChainLookupNothing(pw, name) == {}

\* The get-or-create lookup of the loop: the ids found for the name.
ChainLookup(pw, name) == PathwayIdsByName(pw, name)

\* The link the loop adds between position k and its parent at k-1.
ChainLink(child, parent) ==
    [child |-> child, parent |-> parent, is_primary_chain |-> TRUE, source |-> "AI"]

\* One iteration of `for level, name in enumerate(chain)`, then the rest.
RECURSIVE EnsureLoop(_, _, _, _)
EnsureLoop(db, chain, k, pathway_ids) ==
    IF k > Len(chain) THEN db
    ELSE
      LET found  == ChainLookup(db.pathways, chain[k])
          exists == found # {}
          pid    == IF exists THEN FirstPathwayId(db.pathways, chain[k]) ELSE db.next_id
          pw1    == IF exists
                    THEN [db.pathways EXCEPT ![pid] = ChainPathwayUpdate(@, chain, k)]
                    ELSE (pid :> ChainPathwayRow(pid, chain, k)) @@ db.pathways
          parent_id == pathway_ids[k - 1]
          existing_link == {e \in db.parents : e.child = pid /\ e.parent = parent_id}
          pr1    == IF k > 1 /\ existing_link = {}
                    THEN db.parents \cup {ChainLink(pid, parent_id)}
                    ELSE db.parents
      IN EnsureLoop([db EXCEPT !.pathways = pw1, !.parents = pr1,
                               !.next_id = IF exists THEN @ ELSE @ + 1],
                    chain, k + 1, Append(pathway_ids, pid))

\* The history row written under leaf_name = chain[-1].
HistoryKey(chain) == chain[Len(chain)]

StoreHistory(h, chain, source) ==
    LET leaf_name == HistoryKey(chain)
        row == [hierarchy_chain |-> chain, source |-> source]
    IN IF leaf_name \in DOMAIN h
       THEN [h EXCEPT ![leaf_name] = row]
       ELSE (leaf_name :> row) @@ h

\* ensure_pathway_chain_in_db(chain, source): the session after the commit.
ensure_pathway_chain_in_db(db, chain, source) ==
    LET d1 == EnsureLoop(db, chain, 1, <<>>)
    IN [d1 EXCEPT !.history = StoreHistory(@, chain, source)]

-----------------------------------------------------------------------------
(* Stage 4: resolving a chain for a canonical name                         *)

NoChain == <<>>

\* Names the oracle uses as chain elements, and the chains it may return.
OracleChainNames == {PQC, "A", "B"}
OracleChains == SeqsOf(OracleChainNames, 1, MaxChainLen)

\* check_history_for_chain: the cached chain, or NoChain.
check_history_for_chain(h, pathway_name) ==
    IF pathway_name \in DOMAIN h THEN h[pathway_name].hierarchy_chain ELSE NoChain

\* existing_chains[key] = chain on an insertion-ordered dict.
DictSet(d, key, chain) ==
    IF \E i \in DOMAIN d : d[i].name = key
    THEN [i \in DOMAIN d |-> IF d[i].name = key THEN [name |-> key, chain |-> chain] ELSE d[i]]
    ELSE Append(d, [name |-> key, chain |-> chain])

DictKeys(d) == {d[i].name : i \in DOMAIN d}

\* check_if_fits_existing_hierarchy: parent_chain of the first chain that
\* contains the name, or NoChain.
check_if_fits_existing_hierarchy(pathway_name, existing_pathways) ==
    LET hits == {i \in DOMAIN existing_pathways :
                    pathway_name \in Range(existing_pathways[i].chain)}
    IN IF hits = {} THEN NoChain
       ELSE LET i == CHOOSE i \in hits : \A j \in hits : i <= j
                chain == existing_pathways[i].chain
            IN SubSeq(chain, 1, IndexOf(chain, pathway_name))

\* A root check that accepts every chain.
RootAcceptedAny(chain) == TRUE

\* The root check on an oracle chain.
RootAccepted(chain) == chain[1] \in ROOT_CATEGORY_NAMES

\* chain.append(pathway_name) when the oracle's terminal element differs.
WithTerminal(chain, pathway_name) ==
    IF chain[Len(chain)] # pathway_name THEN Append(chain, pathway_name) ELSE chain

\* chain[:MAX_HIERARCHY_DEPTH]
Truncated(chain) ==
    IF Len(chain) > MAX_HIERARCHY_DEPTH THEN SubSeq(chain, 1, MAX_HIERARCHY_DEPTH) ELSE chain

\* The same with a root put in front of a chain that does not start at one.
AcceptBatchChainGuessingRoot(pathway_name, chain) ==
    IF chain = NoChain THEN NoChain
    ELSE IF ~RootAccepted(chain) THEN Truncated(WithTerminal(<<PQC>> \o chain, pathway_name))
    ELSE Truncated(WithTerminal(chain, pathway_name))

\* process_batch_hierarchy_response, for one pathway of the batch: the chain
\* accepted from the response entry (NoChain: no entry, empty or rejected).
AcceptBatchChain(pathway_name, chain) ==
    IF chain = NoChain THEN NoChain
    ELSE IF ~RootAccepted(chain) THEN NoChain
    ELSE Truncated(WithTerminal(chain, pathway_name))

\* build_hierarchy_chain, the validation of the single-call response.
AcceptSingleChain(pathway_name, chain) ==
    IF chain = NoChain THEN NoChain
    ELSE IF ~RootAccepted(chain) THEN NoChain
    ELSE Truncated(WithTerminal(chain, pathway_name))

\* build_hierarchy_chain(pathway_name, context, existing_pathways) with the
\* oracle's answer resp = [success, chain]: [chain, calls] where calls is the
\* number of oracle calls made.
build_hierarchy_chain(h, pathway_name, existing_pathways, resp) ==
    LET cached_chain == check_history_for_chain(h, pathway_name)
        fit == IF Len(existing_pathways) > 0
               THEN check_if_fits_existing_hierarchy(pathway_name, existing_pathways)
               ELSE NoChain
    IN IF cached_chain # NoChain THEN [chain |-> cached_chain, calls |-> 0]
       ELSE IF fit # NoChain THEN [chain |-> fit, calls |-> 0]
       ELSE IF ~resp.success THEN [chain |-> NoChain, calls |-> 1]
       ELSE [chain |-> AcceptSingleChain(pathway_name, resp.chain), calls |-> 1]

-----------------------------------------------------------------------------
(* Stage 4: run_stage4_from_db                                             *)

\* Canonical names of the pathway_canonical_names table.
AllCanonical == {canonical_names[n] : n \in DOMAIN canonical_names}

\* The pre-check loop over `pathways`: reuse every cached chain.
RECURSIVE Stage4HistoryLoop(_, _, _, _)
Stage4HistoryLoop(db, pathway_list, k, existing) ==
    IF k > Len(pathway_list) THEN [db |-> db, existing |-> existing]
    ELSE LET cached_chain == check_history_for_chain(db.history, pathway_list[k])
         IN IF cached_chain # NoChain
            THEN Stage4HistoryLoop(
                     ensure_pathway_chain_in_db(db, cached_chain, "history_reuse"),
                     pathway_list, k + 1, DictSet(existing, pathway_list[k], cached_chain))
            ELSE Stage4HistoryLoop(db, pathway_list, k + 1, existing)

\* The loop over pathways_needing_chains: attach to an existing chain, or
\* queue the pathway for the oracle.
RECURSIVE Stage4FitLoop(_, _, _, _, _)
Stage4FitLoop(db, needing, k, existing, with_context) ==
    IF k > Len(needing) THEN [db |-> db, existing |-> existing, todo |-> with_context]
    ELSE LET parent_chain == check_if_fits_existing_hierarchy(needing[k], existing)
         IN IF parent_chain # NoChain
            THEN Stage4FitLoop(
                     ensure_pathway_chain_in_db(db, parent_chain, "attach_existing"),
                     needing, k + 1, DictSet(existing, needing[k], parent_chain),
                     with_context)
            ELSE Stage4FitLoop(db, needing, k + 1, existing,
                               Append(with_context, needing[k]))

\* run_stage4_from_db up to the first oracle call.
run_stage4_start ==
    /\ pc = "idle"
    /\ \E pathway_list \in Perms(AllCanonical \ ROOT_CATEGORY_NAMES) :
         LET pre == Stage4HistoryLoop(Db, pathway_list, 1, <<>>)
             needing == SelectSeq(pathway_list,
                                  LAMBDA p : p \notin DictKeys(pre.existing))
             fit == Stage4FitLoop(pre.db, needing, 1, pre.existing, <<>>)
             more == Len(fit.todo) > 0
         IN /\ pathways' = fit.db.pathways
            /\ parents' = fit.db.parents
            /\ history' = fit.db.history
            /\ next_id' = fit.db.next_id
            /\ fit.db.next_id <= MaxPathwayId + 1
            /\ pc' = IF more THEN "stage4" ELSE "idle"
            /\ s4_todo' = fit.todo
            /\ s4_existing' = IF more THEN fit.existing ELSE <<>>
    /\ UNCHANGED <<client_vars, orchestrator_vars, evidence_vars, committed>>
    /\ UNCHANGED <<links, initial_assignments, canonical_names, call_count,
                   s5_pairs, s3_results, report, reach>>

\* The current batch: the next BATCH_SIZE_STAGE4 queued pathways.
Stage4Batch == SubSeq(s4_todo, 1, Min(BATCH_SIZE_STAGE4, Len(s4_todo)))
Stage4Rest == SubSeq(s4_todo, Len(Stage4Batch) + 1, Len(s4_todo))

\* `for pathway_name, chain in new_chains.items()`: save and track each chain
\* accepted from the batch response resp (pathway name -> oracle chain).
RECURSIVE Stage4SaveLoop(_, _, _, _, _)
Stage4SaveLoop(db, batch, k, existing, resp) ==
    IF k > Len(batch) THEN [db |-> db, existing |-> existing]
    ELSE LET chain == AcceptBatchChain(batch[k], resp[batch[k]])
         IN IF chain # NoChain
            THEN Stage4SaveLoop(ensure_pathway_chain_in_db(db, chain, "ai_built"),
                                batch, k + 1, DictSet(existing, batch[k], chain), resp)
            ELSE Stage4SaveLoop(db, batch, k + 1, existing, resp)

\* The fallback loop after a failed batch call: one build_hierarchy_chain per
\* pathway, resp giving the oracle's answer to each single call.
RECURSIVE Stage4FallbackLoop(_, _, _, _, _, _)
Stage4FallbackLoop(db, batch, k, existing, resp, calls) ==
    IF k > Len(batch) THEN [db |-> db, existing |-> existing, calls |-> calls]
    ELSE LET r == build_hierarchy_chain(db.history, batch[k], existing, resp[batch[k]])
         IN IF r.chain # NoChain
            THEN Stage4FallbackLoop(ensure_pathway_chain_in_db(db, r.chain, "ai_built"),
                                    batch, k + 1, DictSet(existing, batch[k], r.chain),
                                    resp, calls + r.calls)
            ELSE Stage4FallbackLoop(db, batch, k + 1, existing, resp, calls + r.calls)

SingleResponses ==
    {[success |-> FALSE, chain |-> NoChain]}
        \cup {[success |-> TRUE, chain |-> c] : c \in OracleChains \cup {NoChain}}

Stage4Commit(db, existing, calls) ==
    /\ pathways' = db.pathways
    /\ parents' = db.parents
    /\ history' = db.history
    /\ next_id' = db.next_id
    /\ db.next_id <= MaxPathwayId + 1
    /\ call_count' = call_count + calls
    /\ s4_todo' = Stage4Rest
    /\ pc' = IF Len(Stage4Rest) > 0 THEN "stage4" ELSE "idle"
    /\ s4_existing' = IF Len(Stage4Rest) > 0 THEN existing ELSE <<>>
    /\ UNCHANGED <<client_vars, orchestrator_vars, evidence_vars, committed>>
    /\ UNCHANGED <<links, initial_assignments, canonical_names, s5_pairs,
                   s3_results, report, reach>>

\* One batch of run_stage4_from_db whose oracle call succeeds.
run_stage4_batch ==
    /\ pc = "stage4"
    /\ call_count < MaxCalls
    /\ \E resp \in [Range(Stage4Batch) -> OracleChains \cup {NoChain}] :
         LET r == Stage4SaveLoop(Db, Stage4Batch, 1, s4_existing, resp)
         IN Stage4Commit(r.db, r.existing, 1)

\* One batch whose oracle call fails: individual calls for its pathways.
run_stage4_batch_fallback ==
    /\ pc = "stage4"
    /\ call_count < MaxCalls
    /\ \E resp \in [Range(Stage4Batch) -> SingleResponses] :
         LET r == Stage4FallbackLoop(Db, Stage4Batch, 1, s4_existing, resp, 0)
         IN Stage4Commit(r.db, r.existing, 1 + r.calls)

\* Oracle chains of every length up to one past MAX_HIERARCHY_DEPTH: the
\* root, then the inner name "B" repeated, then any terminal.
MaxDeepLen == 11   \* longest chain of DeepChains
MaxDeepCalls == 2  \* oracle calls explored per behaviour with such chains

DeepChain(k, terminal) ==
    [i \in 1..k |-> IF i = 1 THEN PQC ELSE IF i = k THEN terminal ELSE "B"]

DeepChains ==
    {DeepChain(k, terminal) : k \in 1..MaxDeepLen, terminal \in OracleChainNames}

DeepSingleResponses ==
    {[success |-> FALSE, chain |-> NoChain]}
        \cup {[success |-> TRUE, chain |-> c] : c \in DeepChains \cup {NoChain}}

\* One batch whose oracle call succeeds, the oracle answering with chains of
\* any length.
run_stage4_batch_deep ==
    /\ pc = "stage4"
    /\ call_count < MaxDeepCalls
    /\ \E resp \in [Range(Stage4Batch) -> DeepChains \cup {NoChain}] :
         LET r == Stage4SaveLoop(Db, Stage4Batch, 1, s4_existing, resp)
         IN Stage4Commit(r.db, r.existing, 1)

\* One batch whose oracle call fails, the single calls answered with chains
\* of any length.
run_stage4_batch_fallback_deep ==
    /\ pc = "stage4"
    /\ call_count < MaxDeepCalls
    /\ \E resp \in [Range(Stage4Batch) -> DeepSingleResponses] :
         LET r == Stage4FallbackLoop(Db, Stage4Batch, 1, s4_existing, resp, 0)
         IN Stage4Commit(r.db, r.existing, 1 + r.calls)

-----------------------------------------------------------------------------
(* Stage 5: siblings                                                       *)

\* Names the oracle proposes as siblings, and the lists it may return.
OracleSiblingNames == {"A", "B", "S"}
OracleSiblingLists == SeqsOf(OracleSiblingNames, 0, MaxSiblings)

\* Pathway(...) as add_siblings_to_db creates it.
SiblingPathwayRow(id, name, hierarchy_level) ==
    [id |-> id, name |-> name, pathway_type |-> "sibling",
     hierarchy_level |-> hierarchy_level, is_leaf |-> TRUE,
     hierarchy_chain |-> NoChain]

\* The parent link of a new sibling.
SiblingLink(child, parent) ==
    [child |-> child, parent |-> parent, is_primary_chain |-> FALSE, source |-> "AI"]

\* An existence check that finds nothing.
SiblingLookupNothing(pw, name) == {}

\* The existence check of add_siblings_to_db: the ids found for the name.
SiblingLookup(pw, name) == PathwayIdsByName(pw, name)

\* add_siblings_to_db(siblings, parent_pathway_id, hierarchy_level)
RECURSIVE add_siblings_to_db(_, _, _, _, _)
add_siblings_to_db(db, siblings, k, parent_pathway_id, hierarchy_level) ==
    IF k > Len(siblings) THEN db
    ELSE
      LET name == siblings[k]
          found == SiblingLookup(db.pathways, name)
      IN IF found # {}
         THEN LET eid == FirstPathwayId(db.pathways, name)
                  pw1 == IF db.pathways[eid].pathway_type # "main"
                         THEN [db.pathways EXCEPT ![eid].pathway_type = "sibling"]
                         ELSE db.pathways
              IN add_siblings_to_db([db EXCEPT !.pathways = pw1], siblings, k + 1,
                                    parent_pathway_id, hierarchy_level)
         ELSE LET sid == db.next_id
              IN add_siblings_to_db(
                     [db EXCEPT !.pathways = (sid :> SiblingPathwayRow(sid, name, hierarchy_level)) @@ @,
                                !.parents = @ \cup {SiblingLink(sid, parent_pathway_id)},
                                !.next_id = @ + 1],
                     siblings, k + 1, parent_pathway_id, hierarchy_level)

\* The filter applied to the oracle's sibling list (both call paths).
RECURSIVE ValidSiblings(_, _, _, _, _)
ValidSiblings(raw, k, main_pathway, existing_siblings, valid) ==
    IF k > Len(raw) THEN valid
    ELSE IF raw[k] = main_pathway \/ raw[k] \in existing_siblings
         THEN ValidSiblings(raw, k + 1, main_pathway, existing_siblings, valid)
    ELSE IF Len(valid) >= MAX_SIBLINGS_PER_LEVEL THEN valid
    ELSE ValidSiblings(raw, k + 1, main_pathway, existing_siblings, Append(valid, raw[k]))

\* Names of the children of a pathway.
ChildNames(pw, pr, parent_id) ==
    {pw[e.child].name : e \in {x \in pr : x.parent = parent_id /\ x.child \in DOMAIN pw}}

\* The pairs of one history chain, from position k on (level k-1 >= 1).
RECURSIVE Stage5ChainPairs(_, _, _, _)
Stage5ChainPairs(chain, k, processed, pairs) ==
    IF k > Len(chain) THEN [processed |-> processed, pairs |-> pairs]
    ELSE
      LET pair_key == <<chain[k - 1], chain[k]>>
      IN IF pair_key \in processed
         THEN Stage5ChainPairs(chain, k + 1, processed, pairs)
         ELSE IF PathwayIdsByName(pathways, chain[k - 1]) = {}
         THEN Stage5ChainPairs(chain, k + 1, processed \cup {pair_key}, pairs)
         ELSE LET parent_id == FirstPathwayId(pathways, chain[k - 1])
              IN Stage5ChainPairs(chain, k + 1, processed \cup {pair_key},
                     Append(pairs, [main |-> chain[k], parent |-> chain[k - 1],
                                    existing |-> ChildNames(pathways, parents, parent_id),
                                    level |-> k - 1, parent_id |-> parent_id]))

\* The loop over the history rows, in the order the query returned them.
RECURSIVE Stage5Collect(_, _, _, _)
Stage5Collect(keys, k, processed, pairs) ==
    IF k > Len(keys) THEN pairs
    ELSE LET chain == history[keys[k]].hierarchy_chain
             r == Stage5ChainPairs(chain, 2, processed, pairs)
         IN Stage5Collect(keys, k + 1, r.processed, r.pairs)

\* run_stage5_from_db up to the first oracle call.
run_stage5_start ==
    /\ pc = "idle"
    /\ \E keys \in Perms(DOMAIN history) :
         LET pairs == Stage5Collect(keys, 1, {}, <<>>)
         IN /\ s5_pairs' = pairs
            /\ pc' = IF Len(pairs) > 0 THEN "stage5" ELSE "idle"
    /\ UNCHANGED <<client_vars, orchestrator_vars, evidence_vars, committed>>
    /\ UNCHANGED <<pathways, parents, history, links, initial_assignments,
                   canonical_names, next_id, call_count, s4_todo, s4_existing,
                   s3_results, report, reach>>

Stage5Batch == SubSeq(s5_pairs, 1, Min(BATCH_SIZE_STAGE5, Len(s5_pairs)))
Stage5Rest == SubSeq(s5_pairs, Len(Stage5Batch) + 1, Len(s5_pairs))

\* `for pair_data in batch`: add the valid siblings of each pair; resp gives
\* the oracle's list for each position of the batch.
RECURSIVE Stage5AddLoop(_, _, _, _)
Stage5AddLoop(db, batch, k, resp) ==
    IF k > Len(batch) THEN db
    ELSE LET siblings == ValidSiblings(resp[k], 1, batch[k].main, batch[k].existing, <<>>)
         IN Stage5AddLoop(
                IF Len(siblings) > 0
                THEN add_siblings_to_db(db, siblings, 1, batch[k].parent_id, batch[k].level)
                ELSE db,
                batch, k + 1, resp)

Stage5Commit(db, calls) ==
    /\ pathways' = db.pathways
    /\ parents' = db.parents
    /\ next_id' = db.next_id
    /\ db.next_id <= MaxPathwayId + 1
    /\ call_count' = call_count + calls
    /\ s5_pairs' = Stage5Rest
    /\ pc' = IF Len(Stage5Rest) > 0 THEN "stage5" ELSE "idle"
    /\ UNCHANGED <<client_vars, orchestrator_vars, evidence_vars, committed>>
    /\ UNCHANGED <<history, links, initial_assignments, canonical_names,
                   s4_todo, s4_existing, s3_results, report, reach>>

\* One batch of run_stage5_from_db whose oracle call succeeds.
run_stage5_batch ==
    /\ pc = "stage5"
    /\ call_count < MaxCalls
    /\ \E resp \in [1..Len(Stage5Batch) -> OracleSiblingLists] :
         Stage5Commit(Stage5AddLoop(Db, Stage5Batch, 1, resp), 1)

\* One batch whose oracle call fails: find_siblings_for_level per pair; a
\* failed single call yields no siblings, as does an empty list.
run_stage5_batch_fallback ==
    /\ pc = "stage5"
    /\ call_count < MaxCalls
    /\ \E resp \in [1..Len(Stage5Batch) -> OracleSiblingLists] :
         Stage5Commit(Stage5AddLoop(Db, Stage5Batch, 1, resp), 1 + Len(Stage5Batch))

-----------------------------------------------------------------------------
(* Stage 3: refinement                                                     *)

\* A dict key that is missing.
Absent == "absent"

\* What the oracle may answer for one entry of "reassignments".
OraclePathwayNames == {"A", "B", Foreign}
OracleReassignments ==
    SeqsOf([interaction_index : 1..(Cardinality(Interactions) + 1),
            best_pathway : OraclePathwayNames], 0, MaxReassign)
Stage3Responses ==
    {[success |-> FALSE, reassignments |-> <<>>]}
        \cup {[success |-> TRUE, reassignments |-> r] : r \in OracleReassignments}

\* The value kept when the oracle names an unknown pathway:
\* ix.get("canonical_pathway", ix.get("initial_pathway", {}).get("pathway_name"))
CurrentAssignment(ix) ==
    IF ix.canonical_pathway = Absent THEN ix.initial_name ELSE ix.canonical_pathway

\* The membership test `best_pathway in all_pathways`.
InVocabulary(best_pathway, all_pathways) == best_pathway \in all_pathways

\* `for reassign in reassignments`, from entry k on.
RECURSIVE ApplyReassignments(_, _, _, _)
ApplyReassignments(interactions, all_pathways, reassignments, k) ==
    IF k > Len(reassignments) THEN interactions
    ELSE
      LET idx == reassignments[k].interaction_index   \* 1-based, as the oracle sends it
          best_pathway == reassignments[k].best_pathway
          applied ==
            IF 1 <= idx /\ idx <= Len(interactions)
            THEN [interactions EXCEPT ![idx].final_pathway =
                     IF InVocabulary(best_pathway, all_pathways)
                     THEN best_pathway
                     ELSE CurrentAssignment(interactions[idx])]
            ELSE interactions
      IN ApplyReassignments(applied, all_pathways, reassignments, k + 1)

\* reassign_interactions_batch(interactions, all_pathways) with oracle answer resp.
reassign_interactions_batch(interactions, all_pathways, resp) ==
    IF ~resp.success THEN interactions
    ELSE ApplyReassignments(interactions, all_pathways, resp.reassignments, 1)

\* Pathway(...) as run_stage3_from_db creates it (is_leaf: the column default).
Stage3PathwayRow(id, name) ==
    [id |-> id, name |-> name, pathway_type |-> "main",
     hierarchy_level |-> PENDING_LEVEL, is_leaf |-> TRUE, hierarchy_chain |-> NoChain]

\* The get-or-create lookup of run_stage3_from_db.
Stage3Lookup(pw, name) == PathwayIdsByName(pw, name)

\* A write that adds a PathwayInteraction row without looking for one.
UpsertLinkAlwaysNew(rows, pathway_id) == Append(rows, pathway_id)

\* Create or update the PathwayInteraction row of an interaction.
UpsertLink(rows, pathway_id) ==
    IF Len(rows) > 0 THEN [rows EXCEPT ![1] = pathway_id] ELSE <<pathway_id>>

\* `for ix in results`: write the final assignments, from result k on.
\* st = [pathways, next_id, links].
RECURSIVE Stage3WriteLoop(_, _, _)
Stage3WriteLoop(st, results, k) ==
    IF k > Len(results) THEN st
    ELSE
      LET final_pathway == results[k].final_pathway
      IN IF final_pathway \in {Absent, None}
         THEN Stage3WriteLoop(st, results, k + 1)
         ELSE
           LET exists == Stage3Lookup(st.pathways, final_pathway) # {}
               pid == IF exists THEN FirstPathwayId(st.pathways, final_pathway)
                      ELSE st.next_id
               pw1 == IF exists THEN st.pathways
                      ELSE (pid :> Stage3PathwayRow(pid, final_pathway)) @@ st.pathways
           IN Stage3WriteLoop(
                  [pathways |-> pw1,
                   next_id |-> IF exists THEN st.next_id ELSE st.next_id + 1,
                   links |-> [st.links EXCEPT ![results[k].db_id] = UpsertLink(@, pid)]],
                  results, k + 1)

\* The interaction dicts of the assignments, in the order of the query.
Stage3Order == [i \in DOMAIN initial_assignments |-> i]

Stage3Dict(i) ==
    [db_id |-> i, canonical_pathway |-> initial_assignments[i].canonical_name,
     initial_name |-> initial_assignments[i].initial_name, final_pathway |-> Absent]

Stage3NumBatches ==
    (Len(initial_assignments) + BATCH_SIZE_STAGE3 - 1) \div BATCH_SIZE_STAGE3

\* batch_interactions of batch b (1-based).
Stage3Batch(b) ==
    LET lo == (b - 1) * BATCH_SIZE_STAGE3 + 1
        hi == Min(b * BATCH_SIZE_STAGE3, Len(initial_assignments))
    IN [j \in 1..(hi - lo + 1) |-> Stage3Dict(Stage3Order[lo + j - 1])]

\* No batch in flight: the locals of run_stage3_from_db do not exist.
NoStage3 == [all_pathways |-> {}, batch |-> 0, results |-> <<>>]

\* No session of run_stage3_from_db is open.
NoSnapshot == [open |-> FALSE, pathways |-> <<>>, next_id |-> 0, links |-> <<>>]

\* What the database holds while the session has flushed and not committed.
Snapshot(pw, nid, lk) == [open |-> TRUE, pathways |-> pw, next_id |-> nid, links |-> lk]

\* run_stage3_from_db up to the return of reassign_interactions_batch for the
\* first batch.
run_stage3_from_db ==
    /\ pc = "idle"
    /\ AllCanonical # {}
    /\ call_count < MaxCalls
    /\ \E resp \in Stage3Responses :
         s3_results' = [all_pathways |-> AllCanonical, batch |-> 1,
                        results |-> reassign_interactions_batch(Stage3Batch(1),
                                                                AllCanonical, resp)]
    /\ pc' = "stage3"
    /\ call_count' = call_count + 1
    /\ committed' = Snapshot(pathways, next_id, links)
    /\ UNCHANGED <<client_vars, orchestrator_vars, evidence_vars>>
    /\ UNCHANGED <<pathways, parents, history, links, initial_assignments,
                   canonical_names, next_id, s4_todo, s4_existing, s5_pairs,
                   report, reach>>

\* The rest of one iteration of the batch loop: write the batch's results,
\* then either call the oracle for the next batch or commit and return.
run_stage3_write_batch ==
    /\ pc = "stage3"
    /\ LET st == Stage3WriteLoop([pathways |-> pathways, next_id |-> next_id,
                                  links |-> links], s3_results.results, 1)
           more == s3_results.batch < Stage3NumBatches
       IN /\ pathways' = st.pathways
          /\ next_id' = st.next_id
          /\ st.next_id <= MaxPathwayId + 1
          /\ links' = st.links
          /\ IF more
             THEN /\ call_count < MaxCalls
                  /\ \E resp \in Stage3Responses :
                       s3_results' =
                           [s3_results EXCEPT
                              !.batch = @ + 1,
                              !.results = reassign_interactions_batch(
                                              Stage3Batch(s3_results.batch + 1),
                                              s3_results.all_pathways, resp)]
                  /\ call_count' = call_count + 1
                  /\ pc' = "stage3"
                  /\ committed' = committed
             ELSE /\ s3_results' = NoStage3
                  /\ call_count' = call_count
                  /\ pc' = "idle"
                  /\ committed' = NoSnapshot
    /\ UNCHANGED <<client_vars, orchestrator_vars, evidence_vars>>
    /\ UNCHANGED <<parents, history, initial_assignments, canonical_names,
                   s4_todo, s4_existing, s5_pairs, report, reach>>

\* The process is stopped between two batches: the session ends without
\* commit and the database holds what the last commit left.
interrupt_stage3 ==
    /\ pc = "stage3"
    /\ committed.open
    /\ pathways' = committed.pathways
    /\ next_id' = committed.next_id
    /\ links' = committed.links
    /\ s3_results' = NoStage3
    /\ committed' = NoSnapshot
    /\ pc' = "idle"
    /\ UNCHANGED <<client_vars, orchestrator_vars, evidence_vars>>
    /\ UNCHANGED <<parents, history, initial_assignments, canonical_names, call_count,
                   s4_todo, s4_existing, s5_pairs, report, reach>>

-----------------------------------------------------------------------------
(* Stage 2: name normalisation                                             *)

FUZZY_MATCH_THRESHOLD == 70   \* percent
BATCH_SIZE_STAGE2 == 50

\* A family of names in pairs that differ in case only, "P10" with "p10" and
\* so on: more pairs than one batch of groups holds.
NameFamilies == 50   \* pairs of variant names besides "A" and "A2"

FamilyName(i) == "P" \o ToString(9 + i)
FamilyVariant(i) == "p" \o ToString(9 + i)
FamilyPairs == {{FamilyName(i), FamilyVariant(i)} : i \in 1..NameFamilies}

\* The family in Python's string order: upper case first.
FamilySorted ==
    [k \in 1..(2 * NameFamilies) |->
        IF k <= NameFamilies THEN FamilyName(k) ELSE FamilyVariant(k - NameFamilies)]

\* calculate_similarity in percent: "A" and "A2" are variants of one name, as
\* are the two names of a family pair; every other pair of distinct names is
\* dissimilar.
calculate_similarity(name1, name2) ==
    IF name1 = name2 THEN 100
    ELSE IF {name1, name2} = {"A", "A2"} \/ {name1, name2} \in FamilyPairs THEN 80
    ELSE 20

\* Python's string order on the modelled names.
NameRank(n) ==
    CASE n = "A" -> 1 [] n = "A2" -> 2 [] n = "B" -> 3 [] n = "Metabolism" -> 4
      [] n = Foreign -> 5
      [] n \in Range(FamilySorted) ->
             LET k == CHOOSE k \in DOMAIN FamilySorted : FamilySorted[k] = n
             IN IF k <= NameFamilies THEN 5 + k ELSE 7 + k
      [] n = PQC -> 6 + NameFamilies
      [] OTHER -> 7 + NameFamilies

\* sorted(group)[0]
FirstSorted(group) == CHOOSE n \in group : \A m \in group : NameRank(n) <= NameRank(m)

\* One iteration of `for name in names`; st = [used, groups].
GroupStep(names, k, st) ==
    IF names[k] \in st.used THEN st
    ELSE LET group == {names[k]} \cup
                      {o \in Range(names) \ (st.used \cup {names[k]}) :
                          calculate_similarity(names[k], o) >= FUZZY_MATCH_THRESHOLD}
         IN [used |-> st.used \cup group, groups |-> Append(st.groups, group)]

\* The iterations lo..hi of the loop, in order (halved, to keep the nesting
\* of the evaluation shallow on long lists).
RECURSIVE GroupLoop(_, _, _, _)
GroupLoop(names, lo, hi, st) ==
    IF lo > hi THEN st
    ELSE IF lo = hi THEN GroupStep(names, lo, st)
    ELSE LET mid == (lo + hi) \div 2
             left == GroupLoop(names, lo, mid, st)
         IN IF Len(left.groups) >= 0   \* the first half is evaluated before the second
            THEN GroupLoop(names, mid + 1, hi, left)
            ELSE st

\* group_similar_names(names): the groups, in order, of a list of names.
group_similar_names(names, k, used, groups) ==
    GroupLoop(names, k, Len(names), [used |-> used, groups |-> groups]).groups

\* What the oracle may answer for one batch of groups: a failure, or the
\* "mappings" of its normalizations merged into one dict.
OracleCanonicalNames == {"A", "B"}
Stage2Mappings == UNION {[D -> OracleCanonicalNames] : D \in SUBSET InitialNames}
Stage2Responses ==
    {[success |-> FALSE, mappings |-> <<>>]}
        \cup {[success |-> TRUE, mappings |-> m] : m \in Stage2Mappings}

\* dict.update(extra) on functions.
DictUpdate(d, extra) == extra @@ d

\* The fallback of a failed batch: every member -> alphabetically first
\* member; of the groups from k on that hold a name, the last one decides.
FallbackMappings(batch, k, mappings) ==
    LET Holding(n) == {j \in k..Len(batch) : n \in batch[j]}
        LastGroup(n) == batch[CHOOSE j \in Holding(n) : \A i \in Holding(n) : i <= j]
    IN DictUpdate(mappings,
                  [n \in UNION {batch[j] : j \in k..Len(batch)} |-> FirstSorted(LastGroup(n))])

\* Step 3: single-name groups map to themselves unless already mapped.
SingleMappings(groups, mappings) ==
    LET singles == {n \in UNION Range(groups) :
                       \E i \in DOMAIN groups : groups[i] = {n}}
    IN [n \in singles \ DOMAIN mappings |-> n] @@ mappings

\* normalize_pathway_names_batch(names) with resp[b] the oracle's answer to
\* batch b of the ambiguous groups: the returned mappings.
RECURSIVE Stage2BatchLoop(_, _, _, _)
Stage2BatchLoop(ambiguous, b, resp, mappings) ==
    IF (b - 1) * BATCH_SIZE_STAGE2 >= Len(ambiguous) THEN mappings
    ELSE
      LET batch == SubSeq(ambiguous, (b - 1) * BATCH_SIZE_STAGE2 + 1,
                          Min(b * BATCH_SIZE_STAGE2, Len(ambiguous)))
      IN Stage2BatchLoop(ambiguous, b + 1, resp,
             IF resp[b].success
             THEN DictUpdate(mappings, resp[b].mappings)
             ELSE FallbackMappings(batch, 1, mappings))

AmbiguousGroups(groups) == SelectSeq(groups, LAMBDA g : Cardinality(g) > 1)

Stage2NumBatches(names) ==
    (Len(AmbiguousGroups(group_similar_names(names, 1, {}, <<>>))) + BATCH_SIZE_STAGE2 - 1)
        \div BATCH_SIZE_STAGE2

\* Steps 2 and 3 of normalize_pathway_names_batch, on the groups of step 1.
NormalizeGroups(groups, resp) ==
    SingleMappings(groups, Stage2BatchLoop(AmbiguousGroups(groups), 1, resp, <<>>))

normalize_pathway_names_batch(names, resp) ==
    IF Len(names) = 0 THEN <<>>
    ELSE NormalizeGroups(group_similar_names(names, 1, {}, <<>>), resp)

\* The upsert of the pathway_canonical_names rows.
SaveCanonical(table, mappings) == DictUpdate(table, mappings)

\* A list without its repeated elements, in the order of first occurrence.
Distinct(list) ==
    LET first == SelectSeq([i \in DOMAIN list |-> i],
                           LAMBDA i : \A j \in 1..(i - 1) : list[j] # list[i])
    IN [k \in DOMAIN first |-> list[first[k]]]

\* The orders in which the DISTINCT query may return the initial names: any
\* order of a few names, the order of the table for many.
QueryOrders ==
    LET listed == Distinct([i \in DOMAIN initial_assignments |->
                               initial_assignments[i].initial_name])
    IN IF Len(listed) <= Cardinality(InitialNames) THEN Perms(Range(listed)) ELSE {listed}

\* run_stage2_from_db from the return of normalize_pathway_names_batch on.
Stage2Run(names, mappings) ==
       /\ canonical_names' = SaveCanonical(canonical_names, mappings)
       /\ initial_assignments' =
              [i \in DOMAIN initial_assignments |->
                  IF initial_assignments[i].initial_name \in DOMAIN mappings
                  THEN [initial_assignments[i] EXCEPT
                          !.canonical_name = mappings[initial_assignments[i].initial_name]]
                  ELSE initial_assignments[i]]
       /\ call_count' = call_count + Stage2NumBatches(names)
       /\ UNCHANGED <<client_vars, orchestrator_vars, evidence_vars, committed>>
       /\ UNCHANGED <<pathways, parents, history, links, next_id, pc, s4_todo,
                      s4_existing, s5_pairs, s3_results, report, reach>>

\* run_stage2_from_db, with resp[b] the oracle's answer to batch b.
run_stage2_from_db ==
    /\ pc = "idle"
    /\ \E names \in QueryOrders :
         LET groups == group_similar_names(names, 1, {}, <<>>)
         IN /\ call_count + Stage2NumBatches(names) <= MaxCalls
            /\ \E resp \in [1..Stage2NumBatches(names) -> Stage2Responses] :
                 Stage2Run(names, IF Len(names) = 0 THEN <<>>
                                  ELSE NormalizeGroups(groups, resp))

\* run_stage2_from_db when the oracle call for the first batch of groups fails
\* or comes back without data.
run_stage2_first_batch_fails ==
    /\ pc = "idle"
    /\ \E names \in QueryOrders :
         LET groups == group_similar_names(names, 1, {}, <<>>)
         IN /\ Stage2NumBatches(names) > 0
            /\ call_count + Stage2NumBatches(names) <= MaxCalls
            /\ \E resp \in [1..Stage2NumBatches(names) -> Stage2Responses] :
                 ~resp[1].success /\ Stage2Run(names, NormalizeGroups(groups, resp))

-----------------------------------------------------------------------------
(* Stage 7: orphan repair and pruning                                      *)

\* Pathway(...) of the fallback root created by fix_orphan_pathways.
FallbackRootRow(id) ==
    [id |-> id, name |-> PQC, pathway_type |-> "main", hierarchy_level |-> 0,
     is_leaf |-> TRUE, hierarchy_chain |-> NoChain]

OrphanLink(child, parent) ==
    [child |-> child, parent |-> parent, is_primary_chain |-> TRUE,
     source |-> "orphan_fix"]

\* Orphan roots: hierarchy_level = 0 and name not in ROOT_CATEGORY_NAMES.
Orphans(pw) ==
    {i \in DOMAIN pw : pw[i].hierarchy_level = 0 /\ pw[i].name \notin ROOT_CATEGORY_NAMES}

\* The lookup of the fallback root by name.
FallbackLookup(pw) == PathwayIdsByName(pw, PQC)

\* fix_orphan_pathways
fix_orphan_pathways ==
    /\ pc = "idle"
    /\ LET orphans == Orphans(pathways)
           missing == FallbackLookup(pathways) = {}
           fallback_id == IF missing THEN next_id ELSE FirstPathwayId(pathways, PQC)
           pw1 == IF missing THEN (fallback_id :> FallbackRootRow(fallback_id)) @@ pathways
                  ELSE pathways
       IN IF orphans = {}
          THEN UNCHANGED <<pathways, parents, next_id>>
          ELSE /\ pathways' = [i \in DOMAIN pw1 |->
                                  IF i \in orphans
                                  THEN [pw1[i] EXCEPT !.hierarchy_level = 1]
                                  ELSE pw1[i]]
               /\ parents' = parents \cup
                      {OrphanLink(o, fallback_id) :
                          o \in {x \in orphans : ~\E e \in parents : e.child = x}}
               /\ next_id' = IF missing THEN next_id + 1 ELSE next_id
               /\ (missing => next_id <= MaxPathwayId)
    /\ UNCHANGED <<client_vars, orchestrator_vars, evidence_vars, committed>>
    /\ UNCHANGED <<history, links, initial_assignments, canonical_names, call_count,
                   pc, s4_todo, s4_existing, s5_pairs, s3_results, report, reach>>

\* child_map[parent_id] and parent_map[child_id] built from the relationships.
ChildMap(pr, id) == {e.child : e \in {x \in pr : x.parent = id}}
ParentMap(pr, id) == {e.parent : e \in {x \in pr : x.child = id}}

\* interaction_counts[pathway_id]: the number of pathway_interactions rows.
RECURSIVE CountRows(_, _, _)
CountRows(lk, todo, id) ==
    IF todo = {} THEN 0
    ELSE LET i == CHOOSE i \in todo : TRUE
         IN Cardinality({k \in DOMAIN lk[i] : lk[i][k] = id}) + CountRows(lk, todo \ {i}, id)

InteractionCount(lk, id) == CountRows(lk, DOMAIN lk, id)

\* Ids reachable from the set `from` in zero or more child_map steps.
RECURSIVE DownClosure(_, _)
DownClosure(pr, from) ==
    LET next == from \cup UNION {ChildMap(pr, i) : i \in from}
    IN IF next = from THEN from ELSE DownClosure(pr, next)

\* The recursion of get_interaction_count_in_subtree never returns from
\* pathway_id: some pathway below it (or itself) is its own descendant.
RecursionUnbounded(pr, pathway_id) ==
    \E n \in DownClosure(pr, {pathway_id}) :
        n \in DownClosure(pr, ChildMap(pr, n))

\* get_interaction_count_in_subtree (memoisation does not change the value).
RECURSIVE get_interaction_count_in_subtree(_, _, _)
RECURSIVE SumSubtrees(_, _, _)
SumSubtrees(children, pr, lk) ==
    IF children = {} THEN 0
    ELSE LET c == CHOOSE c \in children : TRUE
         IN get_interaction_count_in_subtree(c, pr, lk) + SumSubtrees(children \ {c}, pr, lk)

get_interaction_count_in_subtree(pathway_id, pr, lk) ==
    InteractionCount(lk, pathway_id) + SumSubtrees(ChildMap(pr, pathway_id), pr, lk)

\* The loop without its `if pathway.id in root_ids: continue`.
PruneCandidatesWithRoots(pw) ==
    {i \in DOMAIN pw : pw[i].pathway_type # "sibling"}

\* The loop without its `pathway_type == 'sibling'` check.
PruneCandidatesWithSiblings(pw) ==
    {i \in DOMAIN pw : pw[i].name \notin ROOT_CATEGORY_NAMES}

\* Pathways the dead-pathway loop examines: not a root name, not a sibling.
PruneCandidates(pw) ==
    {i \in DOMAIN pw : pw[i].name \notin ROOT_CATEGORY_NAMES
                       /\ pw[i].pathway_type # "sibling"}

\* The dead-pathway loop raises RecursionError.
PruneRaises(pw, pr) == \E i \in PruneCandidates(pw) : RecursionUnbounded(pr, i)

\* dead_pathways taken from the is_leaf flag instead of the subtree.
DeadPathwaysLeaves(pw, pr, lk) ==
    {i \in PruneCandidates(pw) : pw[i].is_leaf /\ InteractionCount(lk, i) = 0}

\* dead_pathways (when the loop does not raise).
DeadPathways(pw, pr, lk) ==
    {i \in PruneCandidates(pw) : get_interaction_count_in_subtree(i, pr, lk) = 0}

\* prune_dead_pathways(dry_run=False)
prune_dead_pathways ==
    /\ pc = "idle"
    /\ IF PruneRaises(pathways, parents)
       THEN UNCHANGED <<pathways, parents>>
       ELSE LET dead_pathways == DeadPathways(pathways, parents, links)
            IN /\ pathways' = [i \in DOMAIN pathways \ dead_pathways |-> pathways[i]]
               /\ parents' = {e \in parents : e.child \notin dead_pathways
                                              /\ e.parent \notin dead_pathways}
    /\ UNCHANGED <<client_vars, orchestrator_vars, evidence_vars, committed>>
    /\ UNCHANGED <<history, links, initial_assignments, canonical_names, next_id,
                   call_count, pc, s4_todo, s4_existing, s5_pairs, s3_results, report, reach>>

-----------------------------------------------------------------------------
(* Stage 7: validation                                                     *)

\* The elements of S in the order the iteration order `ord` lists them.
Ordered(S, ord) == SelectSeq(ord, LAMBDA x : x \in S)

\* can_reach_root(pathway_id, visited) of check_reachability_from_roots.
\* st = [visited, reachable]; the result adds res.
RECURSIVE can_reach_root(_, _, _, _, _)
RECURSIVE ReachParentLoop(_, _, _, _, _, _, _)
ReachParentLoop(pathway_id, plist, k, pr, root_ids, ord, st) ==
    IF k > Len(plist) THEN [res |-> FALSE, visited |-> st.visited, reachable |-> st.reachable]
    ELSE LET r == can_reach_root(plist[k], pr, root_ids, ord, st)
         IN IF r.res
            THEN [res |-> TRUE, visited |-> r.visited,
                  reachable |-> r.reachable \cup {pathway_id}]
            ELSE ReachParentLoop(pathway_id, plist, k + 1, pr, root_ids, ord,
                                 [visited |-> r.visited, reachable |-> r.reachable])

can_reach_root(pathway_id, pr, root_ids, ord, st) ==
    IF pathway_id \in st.reachable
    THEN [res |-> TRUE, visited |-> st.visited, reachable |-> st.reachable]
    ELSE IF pathway_id \in root_ids
    THEN [res |-> TRUE, visited |-> st.visited, reachable |-> st.reachable \cup {pathway_id}]
    ELSE IF pathway_id \in st.visited
    THEN [res |-> FALSE, visited |-> st.visited, reachable |-> st.reachable]
    ELSE ReachParentLoop(pathway_id, Ordered(ParentMap(pr, pathway_id), ord), 1, pr,
                         root_ids, ord,
                         [visited |-> st.visited \cup {pathway_id},
                          reachable |-> st.reachable])

\* The loop with one visited set shared by all its calls.
RECURSIVE ReachSharedLoop(_, _, _, _, _, _)
ReachSharedLoop(plist, k, pr, root_ids, ord, st) ==
    IF k > Len(plist) THEN st.reachable
    ELSE LET r == can_reach_root(plist[k], pr, root_ids, ord, st)
         IN ReachSharedLoop(plist, k + 1, pr, root_ids, ord,
                            [visited |-> r.visited, reachable |-> r.reachable])

ReachTopLoopSharedVisited(plist, k, pr, root_ids, ord, reachable) ==
    ReachSharedLoop(plist, k, pr, root_ids, ord,
                    [visited |-> {}, reachable |-> reachable])

\* `for pid in pathway_ids: can_reach_root(pid)`: each call with a fresh visited.
RECURSIVE ReachTopLoop(_, _, _, _, _, _)
ReachTopLoop(plist, k, pr, root_ids, ord, reachable) ==
    IF k > Len(plist) THEN reachable
    ELSE ReachTopLoop(plist, k + 1, pr, root_ids, ord,
             can_reach_root(plist[k], pr, root_ids, ord,
                            [visited |-> {}, reachable |-> reachable]).reachable)

\* check_reachability_from_roots(pathway_ids, parent_map, root_ids)
check_reachability_from_roots(pathway_ids, pr, root_ids, ord) ==
    LET reachable == ReachTopLoop(Ordered(pathway_ids, ord), 1, pr, root_ids, ord, {})
    IN [reachable |-> reachable, unreachable |-> pathway_ids \ reachable]

\* detect_cycles(pathway_id, parent_map, visited, path); st = [visited, path].
RECURSIVE detect_cycles(_, _, _, _)
RECURSIVE CycleParentLoop(_, _, _, _, _, _)
CycleParentLoop(pathway_id, plist, k, pr, ord, st) ==
    IF k > Len(plist)
    THEN [res |-> FALSE, visited |-> st.visited, path |-> st.path \ {pathway_id}]
    ELSE LET r == detect_cycles(plist[k], pr, ord, st)
         IN IF r.res THEN r
            ELSE CycleParentLoop(pathway_id, plist, k + 1, pr, ord,
                                 [visited |-> r.visited, path |-> r.path])

\* detect_cycles with the visited set in the place of the path set.
detect_cycles_by_visited(pathway_id, pr, ord, st) ==
    IF pathway_id \in st.visited
    THEN [res |-> TRUE, visited |-> st.visited, path |-> st.path]
    ELSE CycleParentLoop(pathway_id, Ordered(ParentMap(pr, pathway_id), ord), 1, pr, ord,
                         [visited |-> st.visited \cup {pathway_id},
                          path |-> st.path \cup {pathway_id}])

detect_cycles(pathway_id, pr, ord, st) ==
    IF pathway_id \in st.path
    THEN [res |-> TRUE, visited |-> st.visited, path |-> st.path]
    ELSE IF pathway_id \in st.visited
    THEN [res |-> FALSE, visited |-> st.visited, path |-> st.path]
    ELSE CycleParentLoop(pathway_id, Ordered(ParentMap(pr, pathway_id), ord), 1, pr, ord,
                         [visited |-> st.visited \cup {pathway_id},
                          path |-> st.path \cup {pathway_id}])

\* cycles_found of INVARIANT 7: each pathway checked with a fresh visited set.
CyclesFound(pw, pr, ord) ==
    {i \in DOMAIN pw : detect_cycles(i, pr, ord, [visited |-> {}, path |-> {}]).res}

\* root_ids of the validation and pruning passes.
RootIds(pw) == {i \in DOMAIN pw : pw[i].name \in ROOT_CATEGORY_NAMES}

\* The seven checks; each yields the numbers of the invariants it reports.
ValidationErrors(pw, pr, lk, unreachable, cycles_found) ==
    (IF \E i \in DOMAIN lk : Len(lk[i]) = 0 THEN {1} ELSE {})
    \cup (IF unreachable # {} THEN {3} ELSE {})
    \cup (IF \E i, j \in DOMAIN pw : i # j /\ pw[i].name = pw[j].name THEN {4} ELSE {})
    \cup (IF \E i \in DOMAIN pw : pw[i].hierarchy_chain # NoChain
                                  /\ pw[i].hierarchy_chain[1] \notin ROOT_CATEGORY_NAMES
          THEN {5} ELSE {})
    \cup (IF cycles_found # {} THEN {7} ELSE {})

ValidationWarnings(pw, pr, lk) ==
    (IF \E i \in DOMAIN lk : Len(lk[i]) > 1 THEN {1} ELSE {})
    \cup (IF DeadPathways(pw, pr, lk) # {} THEN {2} ELSE {})
    \cup (IF \E e \in pr : e.child \in DOMAIN pw
                           /\ pw[e.child].pathway_type = "sibling" /\ e.is_primary_chain
          THEN {6} ELSE {})

\* Orders in which a set or dict of ids may be iterated.
IterationOrders(S) == Perms(S)

\* report["valid"] with every check but the cycle check setting it to False.
ReportValidBlindToCycles(errors) == errors \ {7} = {}

\* report["valid"]: True at first, set to False where an error is appended.
ReportValid(errors) == errors = {}

NoReport == [status |-> "none", valid |-> FALSE, errors |-> {}, warnings |-> {}]
NoReach == [reachable |-> {}, unreachable |-> {}]

\* validate_hierarchy_invariants: the dry-run prune of INVARIANT 2 may raise,
\* in which case no report is returned.
validate_hierarchy_invariants ==
    /\ pc = "idle"
    /\ IF PruneRaises(pathways, parents)
       THEN /\ report' = [NoReport EXCEPT !.status = "raised"]
            /\ reach' = NoReach
       ELSE \E ord \in IterationOrders(DOMAIN pathways) :
              LET r == check_reachability_from_roots(DOMAIN pathways, parents,
                                                     RootIds(pathways), ord)
                  errors == ValidationErrors(pathways, parents, links, r.unreachable,
                                             CyclesFound(pathways, parents, ord))
              IN /\ report' = [status |-> "returned", valid |-> ReportValid(errors),
                               errors |-> errors,
                               warnings |-> ValidationWarnings(pathways, parents, links)]
                 /\ reach' = r
    /\ UNCHANGED <<client_vars, orchestrator_vars, evidence_vars, committed>>
    /\ UNCHANGED <<pathways, parents, history, links, initial_assignments,
                   canonical_names, next_id, call_count, pc, s4_todo, s4_existing,
                   s5_pairs, s3_results>>

\* A call of check_reachability_from_roots on the tables as they are.
call_check_reachability ==
    /\ pc = "idle"
    /\ \E ord \in IterationOrders(DOMAIN pathways) :
         reach' = check_reachability_from_roots(DOMAIN pathways, parents,
                                                RootIds(pathways), ord)
    /\ UNCHANGED <<client_vars, orchestrator_vars, evidence_vars, committed>>
    /\ UNCHANGED <<pathways, parents, history, links, initial_assignments,
                   canonical_names, next_id, call_count, pc, s4_todo, s4_existing,
                   s5_pairs, s3_results, report>>

\* The cycle check of INVARIANT 7 on the tables as they are: the loop over
\* all_pathway_ids and the error it appends to a fresh report.
call_detect_cycles ==
    /\ pc = "idle"
    /\ \E ord \in IterationOrders(DOMAIN pathways) :
         LET cycles_found == CyclesFound(pathways, parents, ord)
         IN report' = [status |-> "cycle_check", valid |-> (cycles_found = {}),
                       errors |-> IF cycles_found # {} THEN {7} ELSE {},
                       warnings |-> {}]
    /\ UNCHANGED <<client_vars, orchestrator_vars, evidence_vars, committed>>
    /\ UNCHANGED <<pathways, parents, history, links, initial_assignments,
                   canonical_names, next_id, call_count, pc, s4_todo, s4_existing,
                   s5_pairs, s3_results, reach>>

-----------------------------------------------------------------------------
(* The oracle client: call_ai_sequential on several threads.  The pipeline  *)
(* actions above take a whole call as one answer of the oracle; the actions *)
(* below are the steps inside get_ai_client, AIClient() and call_sequential.*)

MaxThreads == 2       \* threads calling call_ai_sequential
MaxThreadCalls == 2   \* calls each thread makes

AI_MAX_RETRIES == 3
AI_RETRY_DELAY_BASE == 15   \* tenths of a second

Threads == 1..MaxThreads
NoThread == 0

\* An attribute that has not been assigned yet.
Unset == "unset"

\* str(e) of the exceptions an attempt can end with.
OracleErrors == {"quota", "Empty model response"}

\* AICallResult; NoResult while the call has not returned.
NoResult == [returned |-> FALSE, success |-> FALSE, attempt_count |-> 0, error |-> None]
AICallResult(success, attempt_count, error) ==
    [returned |-> TRUE, success |-> success, attempt_count |-> attempt_count,
     error |-> error]

\* The class AIClient, its one instance and the module global _client, before
\* any use.  has_key: GOOGLE_API_KEY is in the environment or in .env.
NoClient(has_key) ==
    [instance |-> FALSE,            \* AIClient._instance is not None
     initialized |-> Unset,         \* _instance._initialized
     global_client |-> FALSE,       \* _client is not None
     call_lock |-> 0,               \* _instance._call_lock: which Lock object
     locks_made |-> 0,              \* Lock objects made by __init__ so far
     class_lock |-> NoThread,       \* holder of AIClient._lock
     holder |-> [l \in 1..MaxThreads |-> NoThread],  \* holder of each Lock object
     has_key |-> has_key]

\* A thread outside call_ai_sequential.
IdleThread ==
    [pc |-> "idle", call_lock |-> 0, loaded |-> 0, call_num |-> 0, attempt |-> 0,
     delays |-> <<>>, errors |-> <<>>, last_error |-> None, result |-> NoResult,
     raised |-> None, call_nums |-> <<>>, calls |-> 0]

\* The thread leaves call_ai_sequential, by return or by exception.
Leave(t, result, raised) ==
    [threads EXCEPT ![t].pc = "idle", ![t].result = result, ![t].raised = raised,
                    ![t].calls = @ + 1]

\* Lock.release() of the Lock object l.
Release(l) == [client EXCEPT !.holder[l] = NoThread]

\* call_ai_sequential -> get_ai_client: if _client is None
get_ai_client(t) ==
    /\ UNCHANGED <<table_vars, orchestrator_vars, evidence_vars>>
    /\ threads[t].pc = "idle"
    /\ threads[t].calls < MaxThreadCalls
    /\ threads' = [threads EXCEPT
                     ![t].pc = IF client.global_client THEN "enter" ELSE "new",
                     ![t].attempt = 0, ![t].delays = <<>>, ![t].errors = <<>>,
                     ![t].last_error = None,
                     ![t].result = NoResult, ![t].raised = None]
    /\ UNCHANGED <<client, call_count>>

\* AIClient.__new__: if cls._instance is None
AIClient_new(t) ==
    /\ UNCHANGED <<table_vars, orchestrator_vars, evidence_vars>>
    /\ threads[t].pc = "new"
    /\ threads' = [threads EXCEPT
                     ![t].pc = IF client.instance THEN "init" ELSE "new_lock"]
    /\ UNCHANGED <<client, call_count>>

\* AIClient.__new__: with cls._lock
AIClient_new_lock(t) ==
    /\ UNCHANGED <<table_vars, orchestrator_vars, evidence_vars>>
    /\ threads[t].pc = "new_lock"
    /\ client.class_lock = NoThread
    /\ client' = [client EXCEPT !.class_lock = t]
    /\ threads' = [threads EXCEPT ![t].pc = "new_locked"]
    /\ UNCHANGED call_count

\* AIClient.__new__: if cls._instance is None: cls._instance = super().__new__(cls)
AIClient_new_create(t) ==
    /\ UNCHANGED <<table_vars, orchestrator_vars, evidence_vars>>
    /\ threads[t].pc = "new_locked"
    /\ IF client.instance
       THEN /\ client' = [client EXCEPT !.class_lock = NoThread]
            /\ threads' = [threads EXCEPT ![t].pc = "init"]
       ELSE /\ client' = [client EXCEPT !.instance = TRUE]
            /\ threads' = [threads EXCEPT ![t].pc = "new_flag"]
    /\ UNCHANGED call_count

\* AIClient.__new__: cls._instance._initialized = False, and the lock released
AIClient_new_flag(t) ==
    /\ UNCHANGED <<table_vars, orchestrator_vars, evidence_vars>>
    /\ threads[t].pc = "new_flag"
    /\ client' = [client EXCEPT !.initialized = "false", !.class_lock = NoThread]
    /\ threads' = [threads EXCEPT ![t].pc = "init"]
    /\ UNCHANGED call_count

\* AIClient.__init__: if self._initialized: return
AIClient_init(t) ==
    /\ UNCHANGED <<table_vars, orchestrator_vars, evidence_vars>>
    /\ threads[t].pc = "init"
    /\ threads' = CASE client.initialized = Unset -> Leave(t, NoResult, "AttributeError")
                    [] client.initialized = "true" -> [threads EXCEPT ![t].pc = "global"]
                    [] OTHER -> [threads EXCEPT ![t].pc = "init_lock"]
    /\ UNCHANGED <<client, call_count>>

\* AIClient.__init__: self._call_lock = threading.Lock()
AIClient_init_lock(t) ==
    /\ UNCHANGED <<table_vars, orchestrator_vars, evidence_vars>>
    /\ threads[t].pc = "init_lock"
    /\ client' = [client EXCEPT !.locks_made = @ + 1,
                                !.call_lock = client.locks_made + 1]
    /\ threads' = [threads EXCEPT ![t].pc = "init_count"]
    /\ UNCHANGED call_count

\* AIClient.__init__: self._call_count = 0
AIClient_init_count(t) ==
    /\ UNCHANGED <<table_vars, orchestrator_vars, evidence_vars>>
    /\ threads[t].pc = "init_count"
    /\ call_count' = 0
    /\ threads' = [threads EXCEPT ![t].pc = "init_flag"]
    /\ UNCHANGED client

\* AIClient.__init__: self._initialized = True
AIClient_init_flag(t) ==
    /\ UNCHANGED <<table_vars, orchestrator_vars, evidence_vars>>
    /\ threads[t].pc = "init_flag"
    /\ client' = [client EXCEPT !.initialized = "true"]
    /\ threads' = [threads EXCEPT ![t].pc = "global"]
    /\ UNCHANGED call_count

\* get_ai_client: _client = AIClient()
set_global_client(t) ==
    /\ UNCHANGED <<table_vars, orchestrator_vars, evidence_vars>>
    /\ threads[t].pc = "global"
    /\ client' = [client EXCEPT !.global_client = TRUE]
    /\ threads' = [threads EXCEPT ![t].pc = "enter"]
    /\ UNCHANGED call_count

\* call_sequential: the value of self._call_lock that "with" is entered on
call_sequential(t) ==
    /\ UNCHANGED <<table_vars, orchestrator_vars, evidence_vars>>
    /\ threads[t].pc = "enter"
    /\ threads' = [threads EXCEPT ![t].pc = "acquire", ![t].call_lock = client.call_lock]
    /\ UNCHANGED <<client, call_count>>

\* call_sequential: Lock.acquire() of that Lock object
acquire_call_lock(t) ==
    /\ UNCHANGED <<table_vars, orchestrator_vars, evidence_vars>>
    /\ threads[t].pc = "acquire"
    /\ client.holder[threads[t].call_lock] = NoThread
    /\ client' = [client EXCEPT !.holder[threads[t].call_lock] = t]
    /\ threads' = [threads EXCEPT ![t].pc = "load_count"]
    /\ UNCHANGED call_count

\* call_sequential: self._call_count += 1, the read
load_call_count(t) ==
    /\ UNCHANGED <<table_vars, orchestrator_vars, evidence_vars>>
    /\ threads[t].pc = "load_count"
    /\ threads' = [threads EXCEPT ![t].pc = "store_count", ![t].loaded = call_count]
    /\ UNCHANGED <<client, call_count>>

\* call_sequential: self._call_count += 1, the write
store_call_count(t) ==
    /\ UNCHANGED <<table_vars, orchestrator_vars, evidence_vars>>
    /\ threads[t].pc = "store_count"
    /\ call_count' = threads[t].loaded + 1
    /\ threads' = [threads EXCEPT ![t].pc = "call_num"]
    /\ UNCHANGED client

\* call_sequential: call_num = self._call_count
read_call_num(t) ==
    /\ UNCHANGED <<table_vars, orchestrator_vars, evidence_vars>>
    /\ threads[t].pc = "call_num"
    /\ threads' = [threads EXCEPT ![t].pc = "get_client", ![t].call_num = call_count,
                                  ![t].call_nums = Append(@, call_count)]
    /\ UNCHANGED <<client, call_count>>

\* call_sequential: client = self._get_client(), which raises RuntimeError when
\* there is no GOOGLE_API_KEY; the exception leaves the with block.
get_client(t) ==
    /\ UNCHANGED <<table_vars, orchestrator_vars, evidence_vars>>
    /\ threads[t].pc = "get_client"
    /\ IF client.has_key
       THEN /\ threads' = [threads EXCEPT ![t].pc = "attempt", ![t].attempt = 1]
            /\ UNCHANGED client
       ELSE /\ threads' = Leave(t, NoResult, "RuntimeError")
            /\ client' = Release(threads[t].call_lock)
    /\ UNCHANGED call_count

\* call_sequential: an attempt that gets and parses a response
attempt_succeeds(t) ==
    /\ UNCHANGED <<table_vars, orchestrator_vars, evidence_vars>>
    /\ threads[t].pc = "attempt"
    /\ threads' = Leave(t, AICallResult(TRUE, threads[t].attempt, None), None)
    /\ client' = Release(threads[t].call_lock)
    /\ UNCHANGED call_count

\* The thread leaves call_sequential with the failure of its last attempt.
LeaveFailed(t, e) ==
    [Leave(t, AICallResult(FALSE, AI_MAX_RETRIES, e), None) EXCEPT
        ![t].last_error = e, ![t].errors = Append(@, e)]

\* The same loop running while attempt <= AI_MAX_RETRIES + 1.
attempt_fails_once_more(t) ==
    /\ UNCHANGED <<table_vars, orchestrator_vars, evidence_vars>>
    /\ threads[t].pc = "attempt"
    /\ \E e \in OracleErrors :
         IF threads[t].attempt < AI_MAX_RETRIES + 1
         THEN /\ threads' = [threads EXCEPT
                               ![t].last_error = e,
                               ![t].errors = Append(@, e),
                               ![t].delays = Append(@, AI_RETRY_DELAY_BASE * threads[t].attempt),
                               ![t].attempt = @ + 1]
              /\ UNCHANGED client
         ELSE /\ threads' = LeaveFailed(t, e)
              /\ client' = Release(threads[t].call_lock)
    /\ UNCHANGED call_count

\* call_sequential: an attempt that ends in an exception (the warning is
\* logged in errors): sleep and go round again, or return the failure after
\* the last attempt
attempt_fails(t) ==
    /\ UNCHANGED <<table_vars, orchestrator_vars, evidence_vars>>
    /\ threads[t].pc = "attempt"
    /\ \E e \in OracleErrors :
         IF threads[t].attempt < AI_MAX_RETRIES
         THEN /\ threads' = [threads EXCEPT
                               ![t].last_error = e,
                               ![t].errors = Append(@, e),
                               ![t].delays = Append(@, AI_RETRY_DELAY_BASE * threads[t].attempt),
                               ![t].attempt = @ + 1]
              /\ UNCHANGED client
         ELSE /\ threads' = LeaveFailed(t, e)
              /\ client' = Release(threads[t].call_lock)
    /\ UNCHANGED call_count

NextClient ==
    \E t \in Threads :
         \/ get_ai_client(t)
         \/ AIClient_new(t)
         \/ AIClient_new_lock(t)
         \/ AIClient_new_create(t)
         \/ AIClient_new_flag(t)
         \/ AIClient_init(t)
         \/ AIClient_init_lock(t)
         \/ AIClient_init_count(t)
         \/ AIClient_init_flag(t)
         \/ set_global_client(t)
         \/ call_sequential(t)
         \/ acquire_call_lock(t)
         \/ load_call_count(t)
         \/ store_call_count(t)
         \/ read_call_num(t)
         \/ get_client(t)
         \/ attempt_succeeds(t)
         \/ attempt_fails(t)

-----------------------------------------------------------------------------
(* The orchestrator: run_batch.py                                          *)

MaxStageArg == 8   \* --from and --to are drawn from 1..MaxStageArg

\* The "number" of each entry of STAGES, in list order.
STAGES == <<2, 3, 4, 5, 7>>

\* Values argparse may hand over for --from and --to.
StageArgs == 1..MaxStageArg

\* The process has not terminated yet.
NoExit == -1
\* No stage has raised.
NoStage == 0

\* The orchestrator process before main() starts.
NoBatch ==
    [pc |-> "start", from_stage |-> 2, to_stage |-> 7, prune |-> FALSE,
     stages_to_run |-> <<>>, started |-> <<>>, completed |-> <<>>,
     failed |-> NoStage, printed |-> <<>>, exit_status |-> NoExit]

\* stages_to_run = [s for s in STAGES if from_stage <= s["number"] <= to_stage]
StagesToRun(from_stage, to_stage) ==
    SelectSeq(STAGES, LAMBDA n : from_stage <= n /\ n <= to_stage)

\* The three range checks of main(): the message printed before sys.exit(1),
\* or None when the range passes.
RangeError(from_stage, to_stage) ==
    IF from_stage < 2 \/ from_stage > 7 THEN "--from must be between 2 and 7"
    ELSE IF to_stage < 2 \/ to_stage > 7 THEN "--to must be between 2 and 7"
    ELSE IF from_stage > to_stage THEN "--from cannot be greater than --to"
    ELSE None

\* args = parser.parse_args()
main_parse_args(from_stage, to_stage, prune) ==
    /\ UNCHANGED <<table_vars, client_vars, evidence_vars, call_count>>
    /\ orchestrator.pc = "start"
    /\ orchestrator' = [orchestrator EXCEPT !.pc = "validate",
                                            !.from_stage = from_stage,
                                            !.to_stage = to_stage,
                                            !.prune = prune]

\* A range check fails: the message, then sys.exit(1).
main_range_error ==
    /\ UNCHANGED <<table_vars, client_vars, evidence_vars, call_count>>
    /\ orchestrator.pc = "validate"
    /\ RangeError(orchestrator.from_stage, orchestrator.to_stage) # None
    /\ orchestrator' =
          [orchestrator EXCEPT
              !.pc = "exited",
              !.printed = Append(@, <<"Error", RangeError(orchestrator.from_stage,
                                                          orchestrator.to_stage)>>),
              !.exit_status = 1]

\* main() calls run_batch_pipeline, which filters STAGES.
run_batch_pipeline ==
    /\ UNCHANGED <<table_vars, client_vars, evidence_vars, call_count>>
    /\ orchestrator.pc = "validate"
    /\ RangeError(orchestrator.from_stage, orchestrator.to_stage) = None
    /\ LET stages_to_run == StagesToRun(orchestrator.from_stage, orchestrator.to_stage)
       IN orchestrator' =
            IF stages_to_run = <<>>
            THEN [orchestrator EXCEPT !.pc = "returned",
                                      !.printed = Append(@, <<"No stages to run">>)]
            ELSE [orchestrator EXCEPT !.pc = "loop",
                                      !.stages_to_run = stages_to_run]

\* run_stage(stage, prune=prune) returns: the loop goes on to the next stage.
run_stage_returns ==
    /\ UNCHANGED <<table_vars, client_vars, evidence_vars, call_count>>
    /\ orchestrator.pc = "loop"
    /\ orchestrator.stages_to_run # <<>>
    /\ LET stage == Head(orchestrator.stages_to_run)
       IN orchestrator' =
            [orchestrator EXCEPT !.stages_to_run = Tail(@),
                                 !.started = Append(@, stage),
                                 !.completed = Append(@, stage),
                                 !.printed = Append(@, <<"Stage completed", stage>>)]

\* run_stage raises an Exception: the except clause logs, prints and returns.
run_stage_raises ==
    /\ UNCHANGED <<table_vars, client_vars, evidence_vars, call_count>>
    /\ orchestrator.pc = "loop"
    /\ orchestrator.stages_to_run # <<>>
    /\ LET stage == Head(orchestrator.stages_to_run)
       IN orchestrator' =
            [orchestrator EXCEPT
                !.pc = "returned",
                !.started = Append(@, stage),
                !.failed = stage,
                !.printed = Append(Append(@, <<"[ERROR] Stage failed", stage>>),
                                   <<"Pipeline stopped. Fix the error and resume with --from">>)]

\* The loop ran out of stages: "PIPELINE COMPLETE".
run_batch_pipeline_complete ==
    /\ UNCHANGED <<table_vars, client_vars, evidence_vars, call_count>>
    /\ orchestrator.pc = "loop"
    /\ orchestrator.stages_to_run = <<>>
    /\ orchestrator' = [orchestrator EXCEPT !.pc = "returned",
                                            !.printed = Append(@, <<"PIPELINE COMPLETE">>)]

\* run_batch_pipeline returned; main() falls off its end and the interpreter
\* exits with status 0.
main_returns ==
    /\ UNCHANGED <<table_vars, client_vars, evidence_vars, call_count>>
    /\ orchestrator.pc = "returned"
    /\ orchestrator' = [orchestrator EXCEPT !.pc = "exited", !.exit_status = 0]

NextBatch ==
    \/ \E from_stage, to_stage \in StageArgs, prune \in BOOLEAN :
          main_parse_args(from_stage, to_stage, prune)
    \/ main_range_error
    \/ run_batch_pipeline
    \/ run_stage_returns
    \/ run_stage_raises
    \/ run_batch_pipeline_complete
    \/ main_returns

-----------------------------------------------------------------------------
(* The evidence validator: validate_and_enrich_evidence.  Interactors are  *)
(* dicts shared between the input list, the batches and the results; a     *)
(* dict is named by its 'primary' and `objects` holds what it contains.    *)

MaxInteractors == 4   \* longest interactors list validated
MaxResponse == 3      \* longest 'interactors' list in an oracle response

DEFAULT_BATCH_SIZE == 3
DEFAULT_MAX_WORKERS == 3

\* The interactors of ctx_json, in the order of the list.
InteractorName(i) == "I" \o ToString(i)
EvidenceInputs == {[i \in 1..n |-> InteractorName(i)] : n \in 0..MaxInteractors}

\* A protein the oracle names that is in no batch.
Unlisted == "Unlisted Protein"

\* An interactor dict as the pipeline wrote it.
OriginalInteractor == [_validation_status |-> None, updated |-> FALSE]

\* No call of validate_and_enrich_evidence has been made.
NoEvidence ==
    [pc |-> "idle", interactors |-> <<>>, batch_size |-> 0, max_workers |-> 0,
     objects |-> <<>>, futures |-> <<>>, results |-> <<>>, errors |-> <<>>,
     output |-> <<>>]

\* `batches`: (start_index, interactors[i : i + batch_size]) for each i.
EvidenceBatches(interactors, batch_size) ==
    [b \in 1..((Len(interactors) + batch_size - 1) \div batch_size) |->
        [batch_idx |-> (b - 1) * batch_size,
         batch |-> SubSeq(interactors, (b - 1) * batch_size + 1,
                          Min(b * batch_size, Len(interactors)))]]

\* What the oracle may answer for a batch: a call or a parse that raises, a
\* JSON object without 'interactors', or a list of entries, each naming a
\* protein of the batch or another one, valid or not.
EvidenceEntries(batch) ==
    [primary : Range(batch) \cup {Unlisted}, is_valid : BOOLEAN]

EvidenceResponses(batch) ==
    {[raises |-> TRUE, has_interactors |-> FALSE, interactors |-> <<>>],
     [raises |-> FALSE, has_interactors |-> FALSE, interactors |-> <<>>]}
        \cup {[raises |-> FALSE, has_interactors |-> TRUE, interactors |-> r] :
                 r \in SeqsOf(EvidenceEntries(batch), 0, Min(MaxResponse, Len(batch)))}

\* `for val_int in result['interactors']`, from entry k on.
\* st = [objects, validated].
RECURSIVE EvidenceLoop(_, _, _, _)
EvidenceLoop(batch, val_ints, k, st) ==
    IF k > Len(val_ints) THEN st
    ELSE
      LET val_int == val_ints[k]
          orig == val_int.primary
      IN IF orig \notin Range(batch)
         THEN EvidenceLoop(batch, val_ints, k + 1, st)
         ELSE EvidenceLoop(batch, val_ints, k + 1,
                  [objects |-> [st.objects EXCEPT ![orig] =
                                   IF val_int.is_valid
                                   THEN [@ EXCEPT !.updated = TRUE]
                                   ELSE [@ EXCEPT !._validation_status = "rejected"]],
                   validated |-> Append(st.validated, orig)])

\* _process_single_batch: the objects after it and the tuple it returns.
process_single_batch(batch_info, objects, resp) ==
    IF resp.raises
    THEN [objects |-> objects, batch_idx |-> batch_info.batch_idx,
          validated |-> batch_info.batch, error |-> TRUE]
    ELSE IF ~resp.has_interactors
    THEN [objects |-> objects, batch_idx |-> batch_info.batch_idx,
          validated |-> batch_info.batch, error |-> FALSE]
    ELSE LET st == EvidenceLoop(batch_info.batch, resp.interactors, 1,
                                [objects |-> objects, validated |-> <<>>])
         IN [objects |-> st.objects, batch_idx |-> batch_info.batch_idx,
             validated |-> st.validated, error |-> FALSE]

\* A future of the executor.
QueuedFuture == [state |-> "queued", validated |-> <<>>, error |-> FALSE]

Running(futures) == {b \in DOMAIN futures : futures[b].state = "running"}

\* validate_and_enrich_evidence up to the submission of every batch; a list
\* without interactors is returned as it is.
validate_and_enrich_evidence ==
    /\ evidence.pc = "idle"
    /\ \E interactors \in EvidenceInputs,
          batch_size \in {DEFAULT_BATCH_SIZE - 1, DEFAULT_BATCH_SIZE},
          max_workers \in {1, DEFAULT_MAX_WORKERS} :
         evidence' =
           IF Len(interactors) = 0
           THEN [NoEvidence EXCEPT !.pc = "returned"]
           ELSE LET batches == EvidenceBatches(interactors, batch_size)
                IN [pc |-> "collecting", interactors |-> interactors,
                    batch_size |-> batch_size, max_workers |-> max_workers,
                    objects |-> [n \in Range(interactors) |-> OriginalInteractor],
                    futures |-> [b \in DOMAIN batches |-> QueuedFuture],
                    results |-> [b \in DOMAIN batches |-> None],
                    errors |-> <<>>, output |-> <<>>]
    /\ UNCHANGED <<table_vars, client_vars, orchestrator_vars, call_count>>

\* A worker of the pool takes the next queued batch.
worker_starts_batch ==
    /\ evidence.pc = "collecting"
    /\ Cardinality(Running(evidence.futures)) < evidence.max_workers
    /\ \E b \in DOMAIN evidence.futures :
         /\ evidence.futures[b].state = "queued"
         /\ \A c \in 1..(b - 1) : evidence.futures[c].state # "queued"
         /\ evidence' = [evidence EXCEPT !.futures[b].state = "running"]
    /\ UNCHANGED <<table_vars, client_vars, orchestrator_vars, call_count>>

\* A worker finishes _process_single_batch for its batch.
worker_finishes_batch ==
    /\ evidence.pc = "collecting"
    /\ \E b \in Running(evidence.futures) :
         LET batch_info == EvidenceBatches(evidence.interactors, evidence.batch_size)[b]
         IN \E resp \in EvidenceResponses(batch_info.batch) :
              LET r == process_single_batch(batch_info, evidence.objects, resp)
              IN evidence' = [evidence EXCEPT
                                !.objects = r.objects,
                                !.futures[b] = [state |-> "done",
                                                validated |-> r.validated,
                                                error |-> r.error]]
    /\ UNCHANGED <<table_vars, client_vars, orchestrator_vars, call_count>>

\* One iteration of `for future in as_completed(future_to_batch)`.
collect_completed ==
    /\ evidence.pc = "collecting"
    /\ \E b \in DOMAIN evidence.futures :
         /\ evidence.futures[b].state = "done"
         /\ evidence' = [evidence EXCEPT
                           !.futures[b].state = "collected",
                           !.results[b] = evidence.futures[b].validated,
                           !.errors = IF evidence.futures[b].error
                                      THEN Append(@, b) ELSE @]
    /\ UNCHANGED <<table_vars, client_vars, orchestrator_vars, call_count>>

\* Concatenation of the results, in the order of the list.
RECURSIVE Flatten(_, _)
Flatten(results, k) ==
    IF k > Len(results) THEN <<>> ELSE results[k] \o Flatten(results, k + 1)

\* After the loop: flatten the results in batch order and return.
validate_and_enrich_evidence_returns ==
    /\ evidence.pc = "collecting"
    /\ \A b \in DOMAIN evidence.futures : evidence.futures[b].state = "collected"
    /\ evidence' = [evidence EXCEPT !.pc = "returned",
                                    !.output = Flatten(evidence.results, 1)]
    /\ UNCHANGED <<table_vars, client_vars, orchestrator_vars, call_count>>

-----------------------------------------------------------------------------
(* Initial states and the next-state relation                              *)

\* Pathway(...) of seed_all_root_categories.
SeededRootRow(id, name) ==
    [id |-> id, name |-> name, pathway_type |-> "main", hierarchy_level |-> 0,
     is_leaf |-> TRUE, hierarchy_chain |-> NoChain]

\* A pathway row that predates the hierarchy columns: it carries their defaults.
LegacyRow(id, name) ==
    [id |-> id, name |-> name, pathway_type |-> "main", hierarchy_level |-> 0,
     is_leaf |-> TRUE, hierarchy_chain |-> NoChain]

\* The pathways table after clear_pathway_tables (empty), after the
\* migration on an empty table, and after the migration on a table that held
\* a pathway of the earlier pipeline.
InitialPathwayTables ==
    { <<>>,
      (1 :> LegacyRow(1, "B")) @@ (2 :> SeededRootRow(2, PQC))
          @@ (3 :> SeededRootRow(3, "Metabolism")) }

\* The coarse pass has run: every interaction has its initial name, and no
\* canonical name yet.  Interaction 1 is named "A", interaction 2 is named n.
AssignmentTable(n) ==
    [i \in Interactions |-> [initial_name |-> IF i = 1 THEN "A" ELSE n,
                             canonical_name |-> None]]

\* Initial names that no two of which are similar, and initial names that are.
DistinctAssignmentTables == {AssignmentTable("B")}
SimilarAssignmentTables == {AssignmentTable("A2")}

InitFrom(assignment_tables) ==
    /\ pathways \in InitialPathwayTables
    /\ next_id = Cardinality(DOMAIN pathways) + 1
    /\ parents = {}
    /\ history = <<>>
    /\ links = [i \in Interactions |-> <<>>]
    /\ initial_assignments \in assignment_tables
    /\ canonical_names = <<>>
    /\ call_count = 0
    /\ pc = "idle"
    /\ s4_todo = <<>>
    /\ s4_existing = <<>>
    /\ s5_pairs = <<>>
    /\ s3_results = NoStage3
    /\ report = NoReport
    /\ reach = NoReach
    /\ committed = NoSnapshot
    /\ evidence = NoEvidence

\* The pipeline runs on one thread; its specifications leave the client and
\* the orchestrator as they start.
OneThread ==
    /\ client = NoClient(TRUE)
    /\ threads = [t \in Threads |-> IdleThread]
    /\ orchestrator = NoBatch

\* The pipeline on initial names that need no oracle to normalise.
Init == InitFrom(DistinctAssignmentTables) /\ OneThread

Next ==
    \/ run_stage2_from_db
    \/ run_stage3_from_db
    \/ run_stage3_write_batch
    \/ run_stage4_start
    \/ run_stage4_batch
    \/ run_stage4_batch_fallback
    \/ run_stage5_start
    \/ run_stage5_batch
    \/ run_stage5_batch_fallback
    \/ fix_orphan_pathways
    \/ prune_dead_pathways

Spec == Init /\ [][Next]_vars

\* Stages 2 and 3 alone, on similar and on distinct initial names.
InitAssign == InitFrom(DistinctAssignmentTables \cup SimilarAssignmentTables) /\ OneThread

NextAssign ==
    \/ run_stage2_from_db
    \/ run_stage3_from_db
    \/ run_stage3_write_batch

SpecAssign == InitAssign /\ [][NextAssign]_vars

\* Stage 2 on three initial names of which two are variants of one name, and
\* on a table with more groups of variants than BATCH_SIZE_STAGE2.
SmallNames == <<"A", "A2", "B">>
ManyNames == <<"A2", "A">> \o FamilySorted \o <<"B">>

InitNormalize ==
    /\ pathways = <<>>
    /\ next_id = 1
    /\ parents = {}
    /\ history = <<>>
    /\ links = [i \in Interactions |-> <<>>]
    /\ \E names \in {SmallNames, ManyNames} :
         /\ initial_assignments =
                [i \in DOMAIN names |-> [initial_name |-> names[i], canonical_name |-> None]]
         /\ call_count = IF names = SmallNames THEN 0 ELSE MaxCalls - 2
    /\ canonical_names = <<>>
    /\ pc = "idle"
    /\ s4_todo = <<>>
    /\ s4_existing = <<>>
    /\ s5_pairs = <<>>
    /\ s3_results = NoStage3
    /\ report = NoReport
    /\ reach = NoReach
    /\ committed = NoSnapshot
    /\ evidence = NoEvidence
    /\ OneThread

NextNormalize ==
    \/ run_stage2_from_db
    \/ run_stage2_first_batch_fails

SpecNormalize == InitNormalize /\ [][NextNormalize]_vars

\* Stage 3 over more assignments than one batch holds, on empty pathway
\* tables, after Stage 2 has given every assignment its canonical name; the
\* process may be stopped between two batches.
ResumeAssignments == 6   \* rows of pathway_initial_assignments

InitResume ==
    /\ pathways = <<>>
    /\ next_id = 1
    /\ parents = {}
    /\ history = <<>>
    /\ links = [i \in 1..ResumeAssignments |-> <<>>]
    /\ \E last \in {"A", "B"} :
         initial_assignments =
             [i \in 1..ResumeAssignments |->
                 LET n == IF i = ResumeAssignments THEN last ELSE "A"
                 IN [initial_name |-> n, canonical_name |-> n]]
    /\ canonical_names = ("A" :> "A") @@ ("B" :> "B")
    /\ call_count = 0
    /\ pc = "idle"
    /\ s4_todo = <<>>
    /\ s4_existing = <<>>
    /\ s5_pairs = <<>>
    /\ s3_results = NoStage3
    /\ report = NoReport
    /\ reach = NoReach
    /\ committed = NoSnapshot
    /\ evidence = NoEvidence
    /\ OneThread

NextResume ==
    \/ run_stage3_from_db
    \/ run_stage3_write_batch
    \/ interrupt_stage3

SpecResume == InitResume /\ [][NextResume]_vars

\* One call of validate_and_enrich_evidence, with every list of up to
\* MaxInteractors interactors, every order in which the workers finish and
\* every oracle response per batch.
InitEvidence == InitFrom(DistinctAssignmentTables) /\ pathways = <<>> /\ OneThread

NextEvidence ==
    \/ validate_and_enrich_evidence
    \/ worker_starts_batch
    \/ worker_finishes_batch
    \/ collect_completed
    \/ validate_and_enrich_evidence_returns

SpecEvidence == InitEvidence /\ [][NextEvidence]_vars

\* call_ai_sequential called by MaxThreads threads, MaxThreadCalls times each,
\* on empty tables, with and without an API key.
InitClient ==
    /\ InitFrom(DistinctAssignmentTables)
    /\ pathways = <<>>
    /\ client \in {NoClient(k) : k \in BOOLEAN}
    /\ threads = [t \in Threads |-> IdleThread]
    /\ orchestrator = NoBatch

SpecClient == InitClient /\ [][NextClient]_vars

\* Chain merges alone: ensure_pathway_chain_in_db called, as the batch loop of
\* Stage 4 calls it after an oracle call, with any chain that starts at a root
\* (repeated names included), on tables that are empty at first.
MaxMerges == 2     \* history entries after which no further chain is merged
MaxMergeLen == 4   \* names in a merged chain

MergeNames == ROOT_CATEGORY_NAMES \cup InitialNames
MergeChains == {c \in SeqsOf(MergeNames, 2, MaxMergeLen) : c[1] \in ROOT_CATEGORY_NAMES}

\* ensure_pathway_chain_in_db(chain, source='ai_built'), as Stage 4 calls it
\* for a name that has no cached chain in the history.
call_ensure_pathway_chain_in_db(chain) ==
    /\ Cardinality(DOMAIN history) < MaxMerges
    /\ check_history_for_chain(history, HistoryKey(chain)) = NoChain
    /\ LET db == ensure_pathway_chain_in_db(Db, chain, "ai_built")
       IN /\ pathways' = db.pathways
          /\ parents' = db.parents
          /\ history' = db.history
          /\ next_id' = db.next_id
    /\ UNCHANGED <<client_vars, orchestrator_vars, evidence_vars, committed>>
    /\ UNCHANGED <<links, initial_assignments, canonical_names, call_count, pc, s4_todo,
                   s4_existing, s5_pairs, s3_results, report, reach>>

InitMerge == InitFrom(DistinctAssignmentTables) /\ pathways = <<>> /\ OneThread

NextMerge == \E chain \in MergeChains : call_ensure_pathway_chain_in_db(chain)

SpecMerge == InitMerge /\ [][NextMerge]_vars

\* Stage 4 after Stage 2 has run on tables that started empty (the initial
\* names are distinct, so Stage 2 asks the oracle nothing), the oracle
\* answering Stage 4 with chains of any length.
Stage2Done(table) ==
    LET names == CHOOSE p \in Perms({table[i].initial_name : i \in Interactions}) : TRUE
        mappings == normalize_pathway_names_batch(names, <<>>)
    IN [canonical_names |-> SaveCanonical(<<>>, mappings),
        initial_assignments |->
            [i \in Interactions |->
                IF table[i].initial_name \in DOMAIN mappings
                THEN [table[i] EXCEPT !.canonical_name = mappings[table[i].initial_name]]
                ELSE table[i]]]

InitDeep ==
    /\ pathways = <<>>
    /\ next_id = 1
    /\ parents = {}
    /\ history = <<>>
    /\ links = [i \in Interactions |-> <<>>]
    /\ \E table \in DistinctAssignmentTables :
          /\ Stage2NumBatches(CHOOSE p \in Perms({table[i].initial_name : i \in Interactions}) : TRUE) = 0
          /\ canonical_names = Stage2Done(table).canonical_names
          /\ initial_assignments = Stage2Done(table).initial_assignments
    /\ call_count = 0
    /\ pc = "idle"
    /\ s4_todo = <<>>
    /\ s4_existing = <<>>
    /\ s5_pairs = <<>>
    /\ s3_results = NoStage3
    /\ report = NoReport
    /\ reach = NoReach
    /\ committed = NoSnapshot
    /\ evidence = NoEvidence
    /\ OneThread

NextDeep ==
    \/ run_stage4_start
    \/ run_stage4_batch_deep
    \/ run_stage4_batch_fallback_deep

SpecDeep == InitDeep /\ [][NextDeep]_vars

\* The orchestrator alone, on tables it leaves to the stages.
InitBatch == InitFrom(DistinctAssignmentTables) /\ pathways = <<>> /\ OneThread
SpecBatch == InitBatch /\ [][NextBatch]_vars

\* Stage 7 on any small hierarchy: every set of parent links over GraphNodes
\* pathways (cycles, self-loops and several parents included), zero, one or two
\* of them roots, the last one of either type, and interaction 1 unassigned or
\* assigned to a pathway other than the first.
GraphName(i, root) ==
    IF i = 1 THEN (IF root THEN PQC ELSE "A")
    ELSE IF i = 2 THEN (IF root THEN "Metabolism" ELSE "B")
    ELSE "S" \o ToString(i)

GraphRow(i, root, type, leaf) ==
    [id |-> i, name |-> GraphName(i, root), pathway_type |-> type,
     hierarchy_level |-> IF root THEN 0 ELSE 1, is_leaf |-> leaf,
     hierarchy_chain |-> NoChain]

GraphIds == 1..GraphNodes

InitStage7 ==
    /\ \E roots \in SUBSET {1, 2}, last_type \in {"main", "sibling"},
          edges \in SUBSET (GraphIds \X GraphIds) :
         /\ pathways = [i \in GraphIds |->
                           GraphRow(i, i \in roots,
                                    IF i = GraphNodes THEN last_type ELSE "main",
                                    ~\E e \in edges : e[2] = i)]
         /\ parents = {[child |-> e[1], parent |-> e[2], is_primary_chain |-> TRUE,
                        source |-> "AI"] : e \in edges}
    /\ next_id = GraphNodes + 1
    /\ history = <<>>
    /\ \E rows \in {<<>>} \cup {<<i>> : i \in GraphIds \ {1}} :
         links = [i \in Interactions |-> IF i = 1 THEN rows ELSE <<1>>]
    /\ initial_assignments \in DistinctAssignmentTables
    /\ canonical_names = <<>>
    /\ call_count = 0
    /\ pc = "idle"
    /\ s4_todo = <<>>
    /\ s4_existing = <<>>
    /\ s5_pairs = <<>>
    /\ s3_results = NoStage3
    /\ report = NoReport
    /\ reach = NoReach
    /\ committed = NoSnapshot
    /\ evidence = NoEvidence
    /\ OneThread

NextStage7 ==
    \/ prune_dead_pathways
    \/ validate_hierarchy_invariants
    \/ call_check_reachability

SpecStage7 == InitStage7 /\ [][NextStage7]_vars

\* The validation on hierarchies of GraphNodes pathways in which, besides any
\* set of parent links, the last pathway may have the name of the first, may
\* carry a chain that starts at a root or elsewhere, and interaction 1 may
\* have no, one or two assignment rows.
InitValidate ==
    /\ \E roots \in SUBSET {1, 2}, last_type \in {"main", "sibling"},
          edges \in SUBSET (GraphIds \X GraphIds),
          primary \in BOOLEAN, duplicate \in BOOLEAN,
          chain \in {NoChain, <<PQC, "B">>, <<"A", "B">>} :
         /\ pathways = [i \in GraphIds |->
                           [GraphRow(i, i \in roots,
                                     IF i = GraphNodes THEN last_type ELSE "main",
                                     ~\E e \in edges : e[2] = i)
                               EXCEPT !.name = IF i = GraphNodes /\ duplicate
                                               THEN GraphName(1, 1 \in roots) ELSE @,
                                      !.hierarchy_chain = IF i = GraphNodes THEN chain ELSE @]]
         /\ parents = {[child |-> e[1], parent |-> e[2], is_primary_chain |-> primary,
                        source |-> "AI"] : e \in edges}
    /\ next_id = GraphNodes + 1
    /\ history = <<>>
    /\ \E rows \in {<<>>, <<2>>, <<1, GraphNodes>>} :
         links = [i \in Interactions |-> IF i = 1 THEN rows ELSE <<1>>]
    /\ initial_assignments = <<>>
    /\ canonical_names = <<>>
    /\ call_count = 0
    /\ pc = "idle"
    /\ s4_todo = <<>>
    /\ s4_existing = <<>>
    /\ s5_pairs = <<>>
    /\ s3_results = NoStage3
    /\ report = NoReport
    /\ reach = NoReach
    /\ committed = NoSnapshot
    /\ evidence = NoEvidence
    /\ OneThread

SpecValidate == InitValidate /\ [][validate_hierarchy_invariants]_vars

\* The cycle check on the same hierarchies, alone and inside the validation.
NextCycles ==
    \/ call_detect_cycles
    \/ validate_hierarchy_invariants

SpecCycles == InitStage7 /\ [][NextCycles]_vars

\* run_stage7(prune=True) run again and again: a pruning pass that has
\* something to delete is eventually carried out.
SpecStage7Fair == SpecStage7 /\ WF_vars(prune_dead_pathways)

-----------------------------------------------------------------------------
(* Properties of the hierarchy                                             *)

\* Ids reachable from the set `from` in zero or more parent_map steps.
RECURSIVE UpClosure(_, _)
UpClosure(pr, from) ==
    LET next == from \cup UNION {ParentMap(pr, i) : i \in from}
    IN IF next = from THEN from ELSE UpClosure(pr, next)

\* No pathway is its own ancestor.
Acyclic(pr) ==
    \A e \in pr : e.child \notin UpClosure(pr, {e.parent})

\* The rows that carry a hierarchy_chain.
Chained(pw) == {i \in DOMAIN pw : pw[i].hierarchy_chain # NoChain}

\* C1: after any sequence of chain merges (of chains that start at a root
\* name) and sibling insertions, starting from a hierarchy without cycles,
\* the parent links contain no directed cycle and no self-loop.
C1_NoCycle ==
    [][(/\ Acyclic(parents)
        /\ \/ run_stage4_start
           \/ run_stage4_batch
           \/ run_stage4_batch_fallback
           \/ run_stage5_batch
           \/ run_stage5_batch_fallback)
          => Acyclic(parents')]_vars

\* C2: through Stage 3's eager creation, chain merges, sibling insertions
\* and orphan repair, no two pathway rows have the same name.
C2_UniqueNames ==
    \A i, j \in DOMAIN pathways : i # j => pathways[i].name # pathways[j].name

\* A state in which Stage 3, a chain merge, a sibling insertion and the
\* orphan repair have each written rows.
C2_Witness ==
    /\ \E i \in DOMAIN pathways : pathways[i].pathway_type = "sibling"
    /\ \E i \in Chained(pathways) : Len(pathways[i].hierarchy_chain) = 3
    /\ \E e \in parents : e.source = "orphan_fix"
    /\ \E i \in Interactions : Len(links[i]) = 1

\* C3: every row with a hierarchy_chain has a root name first in it and its
\* own name last in it.
C3_ChainEnds ==
    \A i \in Chained(pathways) :
        LET chain == pathways[i].hierarchy_chain
        IN chain[1] \in ROOT_CATEGORY_NAMES /\ chain[Len(chain)] = pathways[i].name

\* Chains from the history and from an existing chain have been merged after
\* the oracle's, a row carries a chain of three names and a root row a chain.
C3_Witness ==
    /\ \E k \in DOMAIN history : history[k].source = "attach_existing"
    /\ \E k \in DOMAIN history : history[k].source = "history_reuse"
    /\ \E i \in Chained(pathways) : Len(pathways[i].hierarchy_chain) = 3
    /\ \E i \in Chained(pathways) : pathways[i].name \in ROOT_CATEGORY_NAMES

\* C4: for every row with a hierarchy_chain, each consecutive pair of the
\* chain is joined by an existing parent link marked is_primary_chain.
C4_ChainEdgesPrimary ==
    \A i \in Chained(pathways) :
        LET chain == pathways[i].hierarchy_chain
        IN \A k \in 1..(Len(chain) - 1) :
             \E e \in parents :
                /\ e.is_primary_chain
                /\ e.parent \in PathwayIdsByName(pathways, chain[k])
                /\ e.child \in PathwayIdsByName(pathways, chain[k + 1])

\* C5: every entry of the chain history has a root name first in its chain
\* and its own key last.
C5_HistoryEnds ==
    \A key \in DOMAIN history :
        LET chain == history[key].hierarchy_chain
        IN chain[1] \in ROOT_CATEGORY_NAMES /\ chain[Len(chain)] = key

\* The history holds an entry written on reuse and one written on attaching
\* to an existing chain, after the oracle's chain of three names was stored.
C5_Witness ==
    /\ {history[k].source : k \in DOMAIN history} = {"history_reuse", "attach_existing"}
    /\ \E key \in DOMAIN history : Len(history[key].hierarchy_chain) = 3
    /\ call_count > 0

-----------------------------------------------------------------------------
(* Properties of Stage 7                                                   *)

\* Some pathway below id (or id itself) has an interaction assigned.
HasInteractionBelow(pr, lk, id) ==
    \E m \in DownClosure(pr, {id}) : InteractionCount(lk, m) > 0

\* The pathways that have a path along parent links to a root.
Rooted(pw, pr) ==
    {i \in DOMAIN pw : UpClosure(pr, {i}) \cap RootIds(pw) # {}}

\* C6: a pruning pass deletes no root, no sibling and no pathway with an
\* interaction anywhere in its subtree, and leaves no assignment row that
\* refers to a deleted pathway.
C6_PruneSpares ==
    [][prune_dead_pathways =>
         /\ \A i \in DOMAIN pathways \ DOMAIN pathways' :
              /\ pathways[i].name \notin ROOT_CATEGORY_NAMES
              /\ pathways[i].pathway_type # "sibling"
              /\ ~HasInteractionBelow(parents, links, i)
         /\ \A x \in Interactions : \A k \in DOMAIN links'[x] :
              links'[x][k] \in DOMAIN pathways']_vars

\* A pass has deleted a pathway and kept a root and a pathway whose only
\* interactions are further down its subtree.
C6_Witness ==
    /\ DOMAIN pathways # GraphIds
    /\ RootIds(pathways) # {}
    /\ \E i \in DOMAIN pathways :
         /\ pathways[i].name \notin ROOT_CATEGORY_NAMES
         /\ pathways[i].pathway_type = "main"
         /\ InteractionCount(links, i) = 0

\* No pathway that is neither a root nor a sibling has zero interactions in
\* its subtree.
NoDeadPathways ==
    \A i \in DOMAIN pathways :
        (pathways[i].name \notin ROOT_CATEGORY_NAMES /\ pathways[i].pathway_type # "sibling")
            => HasInteractionBelow(parents, links, i)

\* C7: from a hierarchy without cycles, pruning passes repeated with
\* revalidation lead to a state with no dead pathway.
C7_PruneConverges == Acyclic(parents) ~> NoDeadPathways

\* Passes have deleted pathways of a hierarchy without cycles and none is
\* dead any more.
C7_Witness ==
    /\ Cardinality(DOMAIN pathways) < GraphNodes - 1
    /\ Acyclic(parents)
    /\ NoDeadPathways

\* C8: a report without errors is returned only when every pathway has a
\* path along parent links to a root, and check_reachability_from_roots
\* returns as unreachable exactly the pathways without such a path.
C8_ValidMeansRooted ==
    [][/\ (report'.status = "returned" /\ validate_hierarchy_invariants)
             => /\ report'.valid => Rooted(pathways, parents) = DOMAIN pathways
                /\ reach'.unreachable = DOMAIN pathways \ Rooted(pathways, parents)
       /\ (report' = report /\ pathways' = pathways /\ call_check_reachability)
             => /\ reach'.unreachable = DOMAIN pathways \ Rooted(pathways, parents)
                /\ reach'.reachable = Rooted(pathways, parents)]_vars

\* A report without errors on a hierarchy in which a pathway has two parents.
C8_Witness ==
    /\ report.status = "returned"
    /\ report.valid
    /\ reach.reachable = DOMAIN pathways
    /\ \E i \in DOMAIN pathways : Cardinality(ParentMap(parents, i)) > 1

-----------------------------------------------------------------------------
(* Properties of Stage 3                                                   *)

\* C9: every final_pathway that reassign_interactions_batch returns is a
\* member of the all_pathways it was called with.
C9_FinalInVocabulary ==
    pc = "stage3" =>
        \A k \in DOMAIN s3_results.results :
            s3_results.results[k].final_pathway # Absent
                => s3_results.results[k].final_pathway \in s3_results.all_pathways

\* C10: when run_stage3_from_db returns, every interaction of the pass has
\* exactly one pathway_interactions row.
C10_OneRowEach ==
    [][(pc = "stage3" /\ pc' = "idle")
          => \A i \in Interactions : Len(links'[i]) = 1]_vars

-----------------------------------------------------------------------------
(* Properties of Stage 2                                                   *)

\* The initial names run_stage2_from_db passes to normalize_pathway_names_batch.
Stage2Names == {initial_assignments[i].initial_name : i \in Interactions}

\* C11: the mapping normalize_pathway_names_batch returns has every input
\* name among its keys, whatever the oracle answered.  (On the first run the
\* pathway_canonical_names table is empty, so the table after the run is the
\* returned mapping.)
C11_MappingTotal ==
    [][(run_stage2_from_db /\ canonical_names = <<>>)
          => Stage2Names \subseteq DOMAIN canonical_names']_vars

\* C12: a Stage 2 run leaves every stored mapping as it was: a name that
\* already had a canonical name keeps that canonical name.
C12_MappingsKept ==
    [][run_stage2_from_db
          => \A n \in DOMAIN canonical_names :
                /\ n \in DOMAIN canonical_names'
                /\ canonical_names'[n] = canonical_names[n]]_vars

-----------------------------------------------------------------------------
(* Properties of the hierarchy, continued                                  *)

\* C13: no parent link whose child is a pathway of type sibling is marked
\* is_primary_chain.
C13_SiblingsNotPrimary ==
    \A e \in parents :
        (e.child \in DOMAIN pathways /\ pathways[e.child].pathway_type = "sibling")
            => ~e.is_primary_chain

-----------------------------------------------------------------------------
(* Properties of the oracle client                                         *)

\* The calls that have been given a call number: <<thread, position>>.
NumberedCalls == {<<t, k>> \in Threads \X (1..MaxThreadCalls) : k <= Len(threads[t].call_nums)}

\* C14: whatever the interleaving, the first use of the client included, at
\* most one thread is in the request-and-parse part of call_sequential, and no
\* two calls have the same call number.
C14_OneCallAtATime ==
    /\ \A t, u \in Threads :
          (threads[t].pc = "attempt" /\ threads[u].pc = "attempt") => t = u
    /\ \A c, d \in NumberedCalls :
          threads[c[1]].call_nums[c[2]] = threads[d[1]].call_nums[d[2]] => c = d

\* The thread is inside call_sequential, past the call number.
InCallSequential(t) == threads[t].pc \in {"get_client", "attempt"}

\* The delays slept so far are AI_RETRY_DELAY_BASE * 1, * 2, ...: each longer
\* than the one before.
DelaysIncrease(t) ==
    \A i \in DOMAIN threads[t].delays :
        /\ threads[t].delays[i] = AI_RETRY_DELAY_BASE * i
        /\ i > 1 => threads[t].delays[i] > threads[t].delays[i - 1]

\* What a call_sequential invocation that made attempts leaves behind: success
\* at the first attempt that did not fail, with that attempt's number, or
\* failure with the last error after AI_MAX_RETRIES failed attempts, a delay
\* between attempts only.
RetryOutcome(t) ==
    LET r == threads'[t].result
        failed == Len(threads'[t].errors)
    IN /\ r.returned
       /\ threads'[t].raised = None
       /\ r.success <=> failed < AI_MAX_RETRIES
       /\ r.success => /\ r.attempt_count = failed + 1
                       /\ r.error = None
                       /\ Len(threads'[t].delays) = failed
       /\ ~r.success => /\ r.attempt_count = AI_MAX_RETRIES
                        /\ failed = AI_MAX_RETRIES
                        /\ r.error = threads'[t].errors[AI_MAX_RETRIES]
                        /\ Len(threads'[t].delays) = AI_MAX_RETRIES - 1

\* During the attempts: no more than AI_MAX_RETRIES, one delay before each
\* attempt but the first.
RetryLoop(t) ==
    threads[t].pc = "attempt"
        => /\ threads[t].attempt \in 1..AI_MAX_RETRIES
           /\ Len(threads[t].errors) = threads[t].attempt - 1
           /\ Len(threads[t].delays) = threads[t].attempt - 1
           /\ DelaysIncrease(t)

\* C15 as claimed: every call_sequential invocation makes at most
\* AI_MAX_RETRIES attempts with increasing delays between them, returns
\* success with the number of the first successful attempt or failure with the
\* last error after AI_MAX_RETRIES failures, and never raises.
C15_NeverRaises ==
    [][\A t \in Threads :
          /\ RetryLoop(t)
          /\ (InCallSequential(t) /\ threads'[t].pc = "idle") => RetryOutcome(t)]_vars

\* C15 as amended: the same for every invocation that reaches its first
\* attempt; an invocation raises only before the first attempt, and then with
\* RuntimeError, when there is no API key to build the client with.
C15_RetryContract ==
    [][\A t \in Threads :
          /\ RetryLoop(t)
          /\ (threads[t].pc = "attempt" /\ threads'[t].pc = "idle") => RetryOutcome(t)
          /\ (threads[t].pc = "get_client" /\ threads'[t].pc = "idle")
                => /\ ~client.has_key
                   /\ threads'[t].raised = "RuntimeError"
                   /\ ~threads'[t].result.returned
                   /\ threads'[t].attempt = 0
                   /\ client'.holder[threads[t].call_lock] = NoThread]_vars

\* One thread has returned the failure of three attempts and another the
\* success of its second attempt.
C15_Witness ==
    \E t, u \in Threads :
        /\ threads[t].pc = "idle" /\ threads[t].result.returned
        /\ ~threads[t].result.success /\ Len(threads[t].errors) = AI_MAX_RETRIES
        /\ threads[t].delays = <<AI_RETRY_DELAY_BASE, 2 * AI_RETRY_DELAY_BASE>>
        /\ threads[u].pc = "idle" /\ threads[u].result.success
        /\ threads[u].result.attempt_count = 2

-----------------------------------------------------------------------------
(* Properties of Stage 4                                                   *)

\* What the oracle can answer that Stage 4 rejects: no chain or an empty one,
\* or a chain that does not start at a root.
RejectedChains == {NoChain} \cup {c \in OracleChains : ~RootAccepted(c)}
RejectedSingleResponses ==
    {r \in SingleResponses : ~r.success \/ r.chain \in RejectedChains}

-----------------------------------------------------------------------------
(* Properties of the chain merge                                           *)

\* No name occurs twice in the chain.
PairwiseDistinct(chain) ==
    \A i, j \in DOMAIN chain : i # j => chain[i] # chain[j]

\* The tables hold nothing.
EmptyGraph == pathways = <<>> /\ parents = {} /\ history = <<>>

\* The session on empty tables.
EmptyDb == [pathways |-> <<>>, parents |-> {}, history |-> <<>>, next_id |-> 1]

\* The tables are what merging that one chain into empty tables leaves.
MergedAlone(chain) == Db = ensure_pathway_chain_in_db(EmptyDb, chain, "ai_built")

\* C17: merging a chain of n pairwise distinct names that starts at a root
\* into empty tables gives n pathways and n-1 parent links, all primary, the
\* i-th name at level i (the root at 0), the last name alone a leaf, and one
\* history entry, under the last name.
C17_MergeIntoEmpty ==
    [][\A chain \in MergeChains :
          (EmptyGraph /\ PairwiseDistinct(chain) /\ call_ensure_pathway_chain_in_db(chain))
            => /\ Cardinality(DOMAIN pathways') = Len(chain)
               /\ \A k \in DOMAIN chain :
                     \E i \in DOMAIN pathways' :
                        /\ pathways'[i].name = chain[k]
                        /\ pathways'[i].hierarchy_level = k - 1
                        /\ pathways'[i].is_leaf = (k = Len(chain))
               /\ Cardinality(parents') = Len(chain) - 1
               /\ \A e \in parents' :
                     /\ e.is_primary_chain
                     /\ \E k \in 2..Len(chain) :
                           /\ pathways'[e.child].name = chain[k]
                           /\ pathways'[e.parent].name = chain[k - 1]
               /\ DOMAIN history' = {chain[Len(chain)]}
               /\ history'[chain[Len(chain)]].hierarchy_chain = chain]_vars

\* A chain of four distinct names has been merged into empty tables.
C17_Witness ==
    \E chain \in MergeChains :
       /\ Len(chain) = 4
       /\ PairwiseDistinct(chain)
       /\ MergedAlone(chain)


\* The names of a chain past position k.
Suffix(chain, k) == {chain[j] : j \in (k + 1)..Len(chain)}

\* chain2 repeats the first k names of chain1 and goes on with names that
\* chain1 does not hold.
SharesPrefix(chain1, chain2, k) ==
    /\ k >= 1
    /\ k <= Len(chain1)
    /\ k < Len(chain2)
    /\ SubSeq(chain2, 1, k) = SubSeq(chain1, 1, k)
    /\ Suffix(chain2, k) \cap Range(chain1) = {}

\* The parents of the pathway with that name in a link table.
ParentsOfName(pw, pp, name) ==
    {e.parent : e \in {l \in pp : l.child \in DOMAIN pw /\ pw[l.child].name = name}}

\* C18: when one chain of distinct names has been merged into empty tables
\* and a second chain shares its first k names with it and goes on with new
\* names, the merge keeps every row and link of the first chain (the first
\* terminal only stops being a leaf when the second chain runs through it),
\* adds one row and one link per new name and nothing else, and when both
\* chains end right after the shared prefix the two terminals lie under
\* the same single parent at the same level.
C18_SharedPrefixReused ==
    [][\A chain2 \in MergeChains :
          (/\ Cardinality(DOMAIN history) = 1
           /\ PairwiseDistinct(chain2)
           /\ HistoryKey(chain2) \in DOMAIN history'
           /\ history'[HistoryKey(chain2)].hierarchy_chain = chain2
           /\ call_ensure_pathway_chain_in_db(chain2))
            => \A n \in DOMAIN history :
                 LET chain1 == history[n].hierarchy_chain
                 IN \A k \in 1..Len(chain1) :
                      (/\ PairwiseDistinct(chain1)
                       /\ SharesPrefix(chain1, chain2, k)
                       /\ MergedAlone(chain1))
                        => /\ \A i \in DOMAIN pathways :
                                 /\ i \in DOMAIN pathways'
                                 /\ pathways'[i] =
                                      [pathways[i] EXCEPT !.is_leaf =
                                          IF k = Len(chain1) /\ pathways[i].name = chain1[k]
                                          THEN FALSE ELSE @]
                           /\ Cardinality(DOMAIN pathways' \ DOMAIN pathways) = Len(chain2) - k
                           /\ {pathways'[i].name : i \in DOMAIN pathways' \ DOMAIN pathways}
                                = Suffix(chain2, k)
                           /\ parents \subseteq parents'
                           /\ Cardinality(parents' \ parents) = Len(chain2) - k
                           /\ \A e \in parents' \ parents :
                                 \E j \in (k + 1)..Len(chain2) :
                                    /\ pathways'[e.child].name = chain2[j]
                                    /\ pathways'[e.parent].name = chain2[j - 1]
                           /\ (Len(chain1) = k + 1 /\ Len(chain2) = k + 1)
                                => LET t1 == FirstPathwayId(pathways', chain1[k + 1])
                                       t2 == FirstPathwayId(pathways', chain2[k + 1])
                                   IN /\ t1 # t2
                                      /\ pathways'[t1].hierarchy_level = k
                                      /\ pathways'[t2].hierarchy_level = k
                                      /\ ParentsOfName(pathways', parents', chain1[k + 1])
                                           = PathwayIdsByName(pathways', chain1[k])
                                      /\ ParentsOfName(pathways', parents', chain2[k + 1])
                                           = PathwayIdsByName(pathways', chain1[k])
                                      /\ Cardinality(PathwayIdsByName(pathways', chain1[k])) = 1]_vars

\* Two chains of four names that share their first three have been merged:
\* the two terminals are siblings under the third name.
C18_Witness ==
    /\ Cardinality(parents) = 4
    /\ \E n1, n2 \in DOMAIN history :
          LET chain1 == history[n1].hierarchy_chain
              chain2 == history[n2].hierarchy_chain
          IN /\ n1 # n2
             /\ Len(chain1) = 4
             /\ Len(chain2) = 4
             /\ PairwiseDistinct(chain1)
             /\ SharesPrefix(chain1, chain2, 3)
             /\ Cardinality(DOMAIN pathways) = 5
             /\ ParentsOfName(pathways, parents, n1) = ParentsOfName(pathways, parents, n2)


-----------------------------------------------------------------------------
(* Properties of the orchestrator                                          *)

\* C19: when a stage has raised, no stage after it was started, and the
\* process ends with a non-zero exit status after naming the failed stage.
C19_FailureStopsWithStatus ==
    (orchestrator.pc = "exited" /\ orchestrator.failed # NoStage)
       => /\ orchestrator.started[Len(orchestrator.started)] = orchestrator.failed
          /\ \E i \in DOMAIN orchestrator.printed :
                orchestrator.printed[i] = <<"[ERROR] Stage failed", orchestrator.failed>>
          /\ orchestrator.exit_status # 0


-----------------------------------------------------------------------------
(* Properties of the root categories                                       *)

\* The root category names that rows of the table bear.
RootNamesPresent(pw) == {pw[i].name : i \in RootIds(pw)}

-----------------------------------------------------------------------------
(* Properties of the chains Stage 4 accepts                                *)

\* The last element of a chain.
Last(chain) == chain[Len(chain)]

\* Every chain of existing_chains ends with the name it is stored under.
TrackedEndWithName(existing) ==
    \A i \in DOMAIN existing : Last(existing[i].chain) = existing[i].name

\* C21: every chain Stage 4 has accepted from the oracle for a name, on the
\* batch path and on the single-call path, ends with that name: a batch
\* leaves existing_chains with every chain ending in its own name if the
\* batch found it so.  (Chains reused from the history or cut from a tracked
\* chain end with their name by construction.)
C21_AcceptedEndsWithName ==
    [][(/\ pc = "stage4"
        /\ TrackedEndWithName(s4_existing)
        /\ run_stage4_batch_deep \/ run_stage4_batch_fallback_deep)
          => TrackedEndWithName(s4_existing')]_vars


\* C22: when a batch of Stage 4 has accepted and merged a chain for a queued
\* name (the name is tracked in existing_chains from that batch on), the
\* history holds a chain under that name, which is what the next run's
\* pre-check reads instead of calling the oracle.
C22_AcceptedChainCached ==
    [][(/\ pc = "stage4"
        /\ run_stage4_batch_deep \/ run_stage4_batch_fallback_deep)
          => \A pathway_name \in Range(Stage4Batch) :
                pathway_name \in DictKeys(s4_existing') \ DictKeys(s4_existing)
                  => check_history_for_chain(history', pathway_name) # NoChain]_vars


\* The name has no history entry and occurs in a chain tracked by this run.
FitsTrackedChain(pathway_name) ==
    /\ check_history_for_chain(history, pathway_name) = NoChain
    /\ check_if_fits_existing_hierarchy(pathway_name, s4_existing) # NoChain

\* C23: in a Stage 4 run, a queued name without history entry that occurs in
\* a chain built or reused earlier in the run is resolved to the prefix of
\* that chain ending at the name, and a batch whose names are all of that
\* kind makes no oracle call.
C23_ResolvedFromRunChains ==
    [][(/\ pc = "stage4"
        /\ run_stage4_batch \/ run_stage4_batch_fallback)
          => /\ \A pathway_name \in Range(Stage4Batch) :
                   FitsTrackedChain(pathway_name)
                     => check_history_for_chain(history', pathway_name)
                          = check_if_fits_existing_hierarchy(pathway_name, s4_existing)
             /\ (\A pathway_name \in Range(Stage4Batch) : FitsTrackedChain(pathway_name))
                   => call_count' = call_count]_vars


-----------------------------------------------------------------------------
(* Properties of the derived columns                                       *)

\* Length of the shortest parent path from the pathways of `frontier` to a
\* row with a root name, d steps having been made already (breadth first);
\* -1 when no parent path leads to a root.
RECURSIVE RootDistance(_, _, _, _, _)
RootDistance(pw, pr, frontier, seen, d) ==
    IF frontier \cap RootIds(pw) # {} THEN d
    ELSE LET next == (UNION {ParentMap(pr, j) : j \in frontier}) \ seen
         IN IF next = {} THEN -1
            ELSE RootDistance(pw, pr, next, seen \cup next, d + 1)

\* C24: whatever chains have been merged, the level of every pathway is the
\* length of the shortest parent path from it to a root.
C24_LevelIsRootDistance ==
    \A i \in DOMAIN pathways :
       pathways[i].hierarchy_level = RootDistance(pathways, parents, {i}, {i}, 0)


\* C25: a batch of Stage 4 that merges a chain (the history gains the key of
\* that chain; a batch holds BATCH_SIZE_STAGE4 = 1 name) leaves every row
\* that was there before in place, with level min(previous level, position
\* in the chain) when its name is in the chain, the pending level of
\* Stage 3 included, and with its previous level when it is not.
C25_MergeLowersLevels ==
    [][(/\ pc = "stage4"
        /\ run_stage4_batch \/ run_stage4_batch_fallback)
          => \A n \in DOMAIN history' \ DOMAIN history :
                LET chain == history'[n].hierarchy_chain
                IN \A i \in DOMAIN pathways :
                      /\ i \in DOMAIN pathways'
                      /\ pathways'[i].hierarchy_level <= pathways[i].hierarchy_level
                      /\ pathways'[i].hierarchy_level =
                           IF pathways[i].name \in Range(chain)
                           THEN Min(pathways[i].hierarchy_level,
                                    IndexOf(chain, pathways[i].name) - 1)
                           ELSE pathways[i].hierarchy_level]_vars

\* A row that Stage 3 created before the root row existed has been merged as
\* a child of the root (level 1), while another row still has the pending
\* level.
C25_Witness ==
    \E i, j, r \in DOMAIN pathways :
       /\ r \in RootIds(pathways)
       /\ i < r
       /\ pathways[i].hierarchy_chain # NoChain
       /\ pathways[i].hierarchy_level = 1
       /\ pathways[j].hierarchy_level = PENDING_LEVEL


\* is_leaf is true exactly on the rows that are the parent of no link.
LeafIffNoChild(pw, pr) ==
    \A i \in DOMAIN pw : pw[i].is_leaf = (ChildMap(pr, i) = {})

\* C26: chain merges, sibling insertions and pruning keep is_leaf true
\* exactly on the pathways without child link: a step of Stage 4, of Stage 5
\* or of the pruning pass that starts from such tables ends in such tables.
C26_LeafIffNoChild ==
    [][(/\ LeafIffNoChild(pathways, parents)
        /\ \/ run_stage4_start \/ run_stage4_batch \/ run_stage4_batch_fallback
           \/ run_stage5_batch \/ run_stage5_batch_fallback
           \/ prune_dead_pathways)
          => LeafIffNoChild(pathways', parents')]_vars


-----------------------------------------------------------------------------
(* Properties of the validation pass                                       *)

\* C27: validate_hierarchy_invariants returns a report for every graph,
\* graphs whose parent links contain a cycle included; no check raises.
C27_ValidationReturnsReport ==
    [][validate_hierarchy_invariants => report'.status = "returned"]_vars


\* C28: the cycle check (detect_cycles from each pathway with a fresh visited
\* set) reports a cycle exactly when the parent links contain a directed
\* cycle, a self-loop included; so does INVARIANT 7 of a returned report.
C28_CycleReportedIffCycle ==
    [][/\ (report'.status = "cycle_check" /\ reach' = reach /\ call_detect_cycles)
             => ((7 \in report'.errors) <=> ~Acyclic(parents))
       /\ (report'.status = "returned" /\ validate_hierarchy_invariants)
             => ((7 \in report'.errors) <=> ~Acyclic(parents))]_vars

\* The check has reported a cycle that is not a self-loop, in a hierarchy
\* where a pathway has two parents.
C28_Witness ==
    /\ report.status = "cycle_check"
    /\ 7 \in report.errors
    /\ ~Acyclic(parents)
    /\ \A e \in parents : e.child # e.parent
    /\ \E i \in DOMAIN pathways : Cardinality(ParentMap(parents, i)) > 1


-----------------------------------------------------------------------------
(* Properties of the orphan fix                                            *)

\* C29: after fix_orphan_pathways every pathway that had level 0 and a name
\* outside ROOT_CATEGORY_NAMES has level 1 and a parent link, of source
\* orphan_fix, to the fallback root "Protein Quality Control", so it has a
\* path along parent links to a root.
C29_OrphansReparented ==
    [][fix_orphan_pathways =>
         \A o \in Orphans(pathways) :
            /\ pathways'[o].hierarchy_level = 1
            /\ \E e \in parents' :
                 /\ e.child = o
                 /\ e.parent \in FallbackLookup(pathways')
                 /\ e.source = "orphan_fix"
            /\ o \in Rooted(pathways', parents')]_vars


-----------------------------------------------------------------------------
(* Properties of the sibling kind                                          *)

\* C30: a sibling pathway becomes main once Stage 3 assigns an interaction to
\* it or a Stage 4 chain merge routes through it: after such a step no
\* pathway that gained an interaction, and no pathway named in a chain merged
\* by the step, is of type sibling.
C30_SiblingBecomesMain ==
    [][/\ (pc = "stage3" /\ run_stage3_write_batch)
             => \A i \in DOMAIN pathways' :
                   InteractionCount(links', i) > InteractionCount(links, i)
                       => pathways'[i].pathway_type = "main"
       /\ (pc = "stage4" /\ (run_stage4_batch \/ run_stage4_batch_fallback))
             => \A n \in DOMAIN history' \ DOMAIN history :
                   \A i \in DOMAIN pathways' :
                      pathways'[i].name \in Range(history'[n].hierarchy_chain)
                          => pathways'[i].pathway_type = "main"]_vars


-----------------------------------------------------------------------------
(* Properties of the sibling insertion                                     *)

\* The names of the rows of a pathways table.
NamesOf(pw) == {pw[i].name : i \in DOMAIN pw}

\* C31: add_siblings_to_db changes no field of a row of type main and adds no
\* link whose child is an existing row; a new row is made only for a name the
\* table did not have, is of type sibling and a leaf, and is the child of
\* exactly one link, not primary, to the parent of the pair.
C31_SiblingsOnlyAdded ==
    [][(pc = "stage5" /\ (run_stage5_batch \/ run_stage5_batch_fallback)) =>
         /\ \A i \in DOMAIN pathways :
              /\ i \in DOMAIN pathways'
              /\ pathways[i].pathway_type = "main" => pathways'[i] = pathways[i]
         /\ parents \subseteq parents'
         /\ \A e \in parents' \ parents : e.child \notin DOMAIN pathways
         /\ \A i \in DOMAIN pathways' \ DOMAIN pathways :
              /\ pathways'[i].name \notin NamesOf(pathways)
              /\ pathways'[i].pathway_type = "sibling"
              /\ pathways'[i].is_leaf
              /\ \E e \in parents' :
                   /\ e.child = i
                   /\ ~e.is_primary_chain
                   /\ e.parent = Stage5Batch[1].parent_id
                   /\ \A f \in parents' : f.child = i => f = e]_vars

\* Stage 5 has added a sibling under a parent while a pathway of type main
\* with one of the names the oracle proposes hangs elsewhere in the hierarchy.
C31_Witness ==
    /\ \E i \in DOMAIN pathways :
         /\ pathways[i].pathway_type = "sibling"
         /\ \E e \in parents : e.child = i /\ ~e.is_primary_chain
    /\ \E j \in DOMAIN pathways :
         /\ pathways[j].pathway_type = "main"
         /\ pathways[j].name \in OracleSiblingNames
         /\ pathways[j].hierarchy_level > 1


-----------------------------------------------------------------------------
(* Properties of the validation report                                     *)

\* The conditions the validation records as errors: an interaction without
\* assignment row, a pathway without path to a root, two pathways of one
\* name, a chain that does not start at a root name, a cycle.
ErrorCondition ==
    \/ \E x \in DOMAIN links : Len(links[x]) = 0
    \/ Rooted(pathways, parents) # DOMAIN pathways
    \/ ~PairwiseDistinct([i \in 1..GraphNodes |-> pathways[i].name])
    \/ \E i \in DOMAIN pathways :
         /\ pathways[i].hierarchy_chain # NoChain
         /\ pathways[i].hierarchy_chain[1] \notin ROOT_CATEGORY_NAMES
    \/ ~Acyclic(parents)

\* The conditions it records as warnings: an interaction with several
\* assignment rows, a dead pathway, a sibling whose link is primary.
WarningCondition ==
    \/ \E x \in DOMAIN links : Len(links[x]) > 1
    \/ DeadPathways(pathways, parents, links) # {}
    \/ \E e \in parents : pathways[e.child].pathway_type = "sibling" /\ e.is_primary_chain

\* C32: a returned report has valid = False exactly when an error was
\* recorded, which is exactly when an error condition holds; the warning
\* conditions are recorded as warnings and leave valid as it is.
C32_ValidIffNoError ==
    [][(report'.status = "returned" /\ validate_hierarchy_invariants) =>
         /\ report'.valid <=> report'.errors = {}
         /\ report'.valid <=> ~ErrorCondition
         /\ (report'.warnings # {}) <=> WarningCondition]_vars

\* A report with warnings of each kind and valid = True.
C32_Witness ==
    /\ report.status = "returned"
    /\ report.valid
    /\ report.warnings = {1, 2, 6}


-----------------------------------------------------------------------------
(* Properties of the refinement pass                                       *)

\* C33: what Stage 3 wrote for batch k is committed before the oracle call
\* for batch k + 1 starts, so a stop between two batches loses no completed
\* batch: the tables after the stop are the tables the completed batches left.
C33_BatchesCommitted ==
    [][(pc = "stage3" /\ s3_results.batch > 1 /\ interrupt_stage3)
          => (links' = links /\ pathways' = pathways)]_vars


-----------------------------------------------------------------------------
(* Properties of the name normalisation                                    *)

\* The groups of variant names among the initial names, the single-member
\* groups, and the smallest member of a group in string order.
NameGroups(names) == Range(group_similar_names(names, 1, {}, <<>>))
SingleNames(names) == {n \in Range(names) : {n} \in NameGroups(names)}
Smallest(group) == CHOOSE n \in group : \A m \in group \ {n} : NameRank(n) < NameRank(m)

\* The groups of the first batch sent to the oracle.
FirstBatchGroups(names) ==
    LET ambiguous == AmbiguousGroups(group_similar_names(names, 1, {}, <<>>))
    IN {ambiguous[j] : j \in 1..Min(BATCH_SIZE_STAGE2, Len(ambiguous))}

\* C34: when the oracle call for a batch of groups fails, every member of
\* each group of that batch is mapped to the smallest member of its group in
\* string order, and that name is mapped to itself.
C34_FailedBatchFallsBack ==
    [][run_stage2_first_batch_fails =>
         \A names \in QueryOrders : \A group \in FirstBatchGroups(names) :
            \A n \in group :
               /\ n \in DOMAIN canonical_names'
               /\ canonical_names'[n] = Smallest(group)]_vars

\* C35: every name that forms a group of its own is mapped to itself, whatever
\* the oracle returned for the groups of several names.
C35_SinglesKeepName ==
    [][(Len(initial_assignments) = Len(SmallNames) /\ run_stage2_from_db) =>
         \A names \in QueryOrders : \A n \in SingleNames(names) :
            n \in DOMAIN canonical_names' /\ canonical_names'[n] = n]_vars


-----------------------------------------------------------------------------
(* Properties of the pruning pass                                          *)

\* C36: a pruning pass disconnects no pathway it keeps: when every pathway
\* had a path to a root before the pass, every pathway left after it, the
\* siblings included, has one.
C36_PruneKeepsRooted ==
    [][(Rooted(pathways, parents) = DOMAIN pathways /\ prune_dead_pathways)
          => Rooted(pathways', parents') = DOMAIN pathways']_vars


\* C37: on a hierarchy without cycles one pruning pass reaches the fixed
\* point: after the pass no pathway that is neither a root nor a sibling has
\* zero interactions in its subtree, so a second pass would delete nothing.
C37_OnePassIsFixedPoint ==
    [][(Acyclic(parents) /\ prune_dead_pathways)
          => /\ NoDeadPathways'
             /\ DeadPathways(pathways', parents', links') = {}]_vars

\* One pass has deleted exactly one pathway of a hierarchy without cycles, and
\* a surviving main pathway has no interaction of its own, only one below it.
C37_Witness ==
    /\ Cardinality(DOMAIN pathways) = GraphNodes - 1
    /\ Acyclic(parents)
    /\ DeadPathways(pathways, parents, links) = {}
    /\ \E i \in DOMAIN pathways :
         /\ pathways[i].name \notin ROOT_CATEGORY_NAMES
         /\ pathways[i].pathway_type = "main"
         /\ InteractionCount(links, i) = 0
         /\ HasInteractionBelow(parents, links, i)


\* Every row whose name is a root name has level 0 and is the child of no
\* parent link.
RootsAtTop(pw, pr) ==
    \A i \in RootIds(pw) :
        /\ pw[i].hierarchy_level = 0
        /\ ~\E e \in pr : e.child = i

\* C38: chain merges of chains accepted by Stage 4 (first element a root
\* name) never give a row with a root name a parent link or a level other
\* than 0.
C38_RootsStayRoots ==
    [][(/\ RootsAtTop(pathways, parents)
        /\ \/ run_stage4_start
           \/ run_stage4_batch
           \/ run_stage4_batch_fallback)
          => RootsAtTop(pathways', parents')]_vars


\* C39: the refinement pass gives no interaction a second assignment row: an
\* interaction with at most one PathwayInteraction row before the pass writes
\* a batch has at most one after it.
C39_NoSecondRow ==
    [][run_stage3_write_batch
          => \A x \in DOMAIN links : Len(links[x]) <= 1 => Len(links'[x]) <= 1]_vars

\* The pass has moved an interaction's row in place: a pathway it created for
\* an assignment has no row left, and no interaction has two rows.
C39_Witness ==
    /\ pc = "idle"
    /\ \E p \in DOMAIN pathways : \A x \in DOMAIN links : p \notin Range(links[x])
    /\ \E x \in DOMAIN links : Len(links[x]) = 1
    /\ \A x \in DOMAIN links : Len(links[x]) <= 1


-----------------------------------------------------------------------------
(* Properties of the evidence validator                                    *)

\* C40: validate_and_enrich_evidence returns every input interactor exactly
\* once and in the input order, whatever the order in which the workers
\* finish their batches and whatever the oracle answers for each batch.
C40_EveryInteractorOnceInOrder ==
    evidence.pc = "returned" => evidence.output = evidence.interactors

=============================================================================
